---- MODULE Spec2Model ----
(***************************************************************************)
(* Conversation-and-response pipeline of the Discord AI assistant bot:     *)
(* ChatHistoryManager (services/chat_history.py), AIResponder.get_answer   *)
(* (services/ai_responder.py), GeminiService prompt construction           *)
(* (services/gemini.py), the text utilities (utils/text.py) and the        *)
(* AICog handlers that drive them (cogs/ai_cog.py).                        *)
(*                                                                         *)
(* A text is a sequence of tokens.  The literal "[time: " of the time tag  *)
(* is the two tokens "[" and "time: ", so that removing one tag can splice *)
(* the text around it into another.  " " and "\n" are the whitespace       *)
(* tokens; "\n" is the one token the regex's "." does not match.           *)
(***************************************************************************)
EXTENDS Integers, Sequences, FiniteSets, TLC

VARIABLES
    latest_n,             \* ChatHistoryManager.latest_n
    history,              \* ChatHistoryManager._history: scope id -> list of turns
    system_prompt,        \* GeminiService._system_prompt
    listen_all_messages,  \* AICog.listen_all_messages
    tasks,                \* the get_answer invocations, each with its position
    appended,             \* history variable: every turn ever appended to a scope, in order
    voicevox_config,      \* VoiceVoxConfig._config: key -> value
    persisted,            \* the file voicevox_config.json
    outcome,              \* what the last VoiceVoxConfig operation returned or raised
    defaults,             \* VoiceVoxConfig.DEFAULTS, the class attribute as it is now
    mention_user,         \* AICog.mention_user
    backup_audio,         \* AICog.backup_audio
    backup_text,          \* AICog.backup_text
    default_speaker       \* VoiceVoxService.default_speaker

\* the state of the conversation pipeline
chat_vars == <<latest_n, history, system_prompt, listen_all_messages, tasks, appended>>

\* the state of the voice parameter store
store_vars == <<voicevox_config, persisted, outcome, defaults>>

\* the settings of the delivery
delivery_vars == <<mention_user, backup_audio, backup_text, default_speaker>>

vars == <<latest_n, history, system_prompt, listen_all_messages, tasks, appended,
          voicevox_config, persisted, outcome, defaults,
          mention_user, backup_audio, backup_text, default_speaker>>

---------------------------------------------------------------------------
(* Bounds of the model *)

\* get_answer invocations in one behaviour of SpecConcurrent
MaxTasks == 2
\* get_answer invocations in one behaviour of Spec
MaxCalls == 1
\* largest latest_n the model starts with or sets
MaxN == 2
\* messages on_message receives in one behaviour
MaxMessages == 1
\* longest text handed to the text functions
MaxTextLen == 4
\* longest response of the model in SpecAnswer
MaxRawLen == 6

\* set_history_length accepts 1..50 (cogs/ai_cog.py:385)
MinHistoryLength == 1
MaxHistoryLength == 50

---------------------------------------------------------------------------
(* Input sets *)

Tasks == 1..MaxTasks

\* guild ids; 0 is what get_answer and on_message use when source.guild is None
Scopes == {0, 1}

BotName == "Bot"
BotMention == "<@bot>"

\* message authors: display name, author.bot, author.id == bot.user.id
Alice == [name |-> "Alice", bot |-> FALSE, self |-> FALSE]
OtherBot == [name |-> "Other", bot |-> TRUE, self |-> FALSE]
Self == [name |-> BotName, bot |-> TRUE, self |-> TRUE]
Authors == {Alice, OtherBot, Self}

\* number of messages on_message has received
Received ==
    Cardinality({ p \in Scopes \X (1..(MaxMessages + 2 * MaxTasks)) :
                    /\ p[2] <= Len(appended[p[1]])
                    /\ appended[p[1]][p[2]].part = "message" })

\* message.content / the text argument of a command
Contents == { <<"hi">>, <<BotMention, " ", "hi">> }
CommandTexts == { <<"hi">> }

\* message.attachments, each attachment given by its content_type ("" for None)
AttachmentLists ==
    { <<>>, <<"text/plain", "image/png", "image/jpeg">> }

\* the content types with content_type.startswith("image/")
ImageTypes == { "image/png", "image/jpeg" }

\* response.text of the model, before GeminiService strips it
RawResponses ==
    { <<"[", "time: ", "12:00", "]", " ", "ok">>, <<" ">> }

\* values given to /change_system_prompt
Prompts == { <<>>, <<"SYS">> }

\* Python's None where a text is expected
NoneValue == <<"#None">>

\* get_settings().system_prompt: the stripped sys_prompt.txt, read anew by every
\* call, or None when the file cannot be read
SettingsPrompts == { NoneValue, <<"SYS">> }

\* speaker ids: settings.voicevox_speaker and what /change_speaker is given
ConfiguredSpeaker == 1
Speakers == { ConfiguredSpeaker, 2 }

\* rendered datetime.now() of ChatHistoryManager._current_time
Timestamps == { "ts" }

\* lengths offered to /set_history_length
LengthInputs == {MinHistoryLength - 1} \cup (1..MaxN) \cup {MaxHistoryLength + 1}

---------------------------------------------------------------------------
(* Python helpers *)

Min(a, b) == IF a < b THEN a ELSE b
Max(a, b) == IF a > b THEN a ELSE b

\* s[start:] of a Python list, for any integer start
PySliceFrom(s, start) ==
    LET begin == IF start < 0 THEN Max(Len(s) + start, 0) ELSE Min(start, Len(s))
    IN SubSeq(s, begin + 1, Len(s))

Whitespace == {" ", "\n"}

RECURSIVE LStrip(_)
LStrip(s) ==
    IF s # <<>> /\ Head(s) \in Whitespace THEN LStrip(Tail(s)) ELSE s

RECURSIVE RStrip(_)
RStrip(s) ==
    IF s # <<>> /\ s[Len(s)] \in Whitespace THEN RStrip(SubSeq(s, 1, Len(s) - 1)) ELSE s

\* str.strip()
Strip(s) == RStrip(LStrip(s))

\* str.replace(tok, "") for a one-token needle
RemoveToken(s, tok) == SelectSeq(s, LAMBDA x : x # tok)

\* sub in s, for texts
Contains(s, sub) ==
    \E i \in 0..(Len(s) - Len(sub)) : SubSeq(s, i + 1, i + Len(sub)) = sub

\* "\n".join(lines)
RECURSIVE JoinLines(_)
JoinLines(lines) ==
    IF lines = <<>> THEN <<>>
    ELSE IF Len(lines) = 1 THEN lines[1]
    ELSE lines[1] \o <<"\n">> \o JoinLines(Tail(lines))

---------------------------------------------------------------------------
(* utils/text.py *)

\* end of the match of \[time: .*?\]\s* starting at i, or 0 when there is none
TimeTagEnd(s, i) ==
    IF i + 1 <= Len(s) /\ s[i] = "[" /\ s[i + 1] = "time: "
    THEN LET closers == { j \in (i + 2)..Len(s) :
                             /\ s[j] = "]"
                             /\ \A k \in (i + 2)..(j - 1) : s[k] # "\n" }
         IN IF closers = {} THEN 0
            ELSE LET j == CHOOSE c \in closers : \A d \in closers : c <= d
                     ws == { e \in j..Len(s) : \A k \in (j + 1)..e : s[k] \in Whitespace }
                 IN CHOOSE e \in ws : \A d \in ws : e >= d
    ELSE 0

RECURSIVE RemoveTimeTagFrom(_, _)
RemoveTimeTagFrom(s, i) ==
    IF i > Len(s) THEN <<>>
    ELSE LET e == TimeTagEnd(s, i)
         IN IF e # 0 THEN RemoveTimeTagFrom(s, e + 1)
            ELSE <<s[i]>> \o RemoveTimeTagFrom(s, i + 1)

\* TIME_TAG_PATTERN.sub('', text)
remove_time_tag(s) == RemoveTimeTagFrom(s, 1)

---------------------------------------------------------------------------
(* services/chat_history.py *)

UserTurn(ts, user_name, content) ==
    [role |-> "user",
     content |-> <<"[", "time: ", ts, "]", " ", user_name, ": ">> \o content]

AssistantTurn(ts, content) ==
    [role |-> "assistant",
     content |-> <<"[", "time: ", ts, "]", " ">> \o content]

\* mutant: the slice keeps one turn too many
TrimKeepsOneMore(log, n) ==
    IF Len(log) > n * 2 THEN PySliceFrom(log, (-n) * 2 - 1) ELSE log

_trim_history(log, n) ==
    IF Len(log) > n * 2 THEN PySliceFrom(log, (-n) * 2) ELSE log

add_user_message(log, n, ts, user_name, content) ==
    _trim_history(Append(log, UserTurn(ts, user_name, content)), n)

add_assistant_message(log, n, ts, content) ==
    _trim_history(Append(log, AssistantTurn(ts, content)), n)

\* mutant: the slice forgets the factor two
LatestWithoutFactor(log, n) == PySliceFrom(log, -n)

get_latest_history(log, n) == PySliceFrom(log, (-n) * 2)

---------------------------------------------------------------------------
(* services/gemini.py *)

\* truth value of a str-or-None
Truthy(p) == p # NoneValue /\ p # <<>>

\* (getattr(response, "text", "") or "").strip() or sentinel
ResponseText(raw, sentinel) ==
    IF Strip(raw) = <<>> THEN <<sentinel>> ELSE Strip(raw)

\* the role mapping and the filter of convert_history_to_gemini_format
GeminiRole(role) ==
    IF role = "user" THEN "user"
    ELSE IF role \in {"assistant", "model"} THEN "model"
    ELSE "skip"

convert_history_to_gemini_format(prompt_history) ==
    LET kept == SelectSeq(prompt_history, LAMBDA m : GeminiRole(m.role) # "skip")
    IN [i \in 1..Len(kept) |->
            [role |-> GeminiRole(kept[i].role), text |-> kept[i].content]]

\* mutant: the new user message is never added to the list
AskWithoutUserMessage(sys, hist, user_message) ==
    convert_history_to_gemini_format(
        IF Truthy(sys) /\ hist # <<>> /\ hist[1].role = "user"
        THEN <<[role |-> "user", content |-> sys \o <<"\n">> \o hist[1].content]>>
             \o Tail(hist)
        ELSE hist)

\* the message list ask_with_history hands to generate_content
ask_with_history(sys, hist, user_message) ==
    LET merged ==
            IF Truthy(sys)
            THEN IF hist # <<>> /\ hist[1].role = "user"
                 THEN <<[role |-> "user",
                         content |-> sys \o <<"\n">> \o hist[1].content]>>
                      \o Tail(hist)
                      \o <<[role |-> "user", content |-> user_message]>>
                 ELSE <<[role |-> "user",
                         content |-> sys \o <<"\n">> \o user_message]>>
            ELSE hist \o <<[role |-> "user", content |-> user_message]>>
    IN convert_history_to_gemini_format(merged)

\* the text part describe_image hands to generate_content (sys is not None)
describe_image_text(sys, text) ==
    sys \o (IF text = <<>> THEN <<"Describe this image in detail.">> ELSE text)

---------------------------------------------------------------------------
(* services/ai_responder.py: AIResponder.get_answer, cut at its awaits      *)
(*   "read"     awaiting attachment.read()                                  *)
(*   "describe" awaiting GeminiService.describe_image                       *)
(*   "ask"      awaiting GeminiService.ask_with_history                     *)
(*   "answered" get_answer has returned its answer                          *)
(*   "failed"   get_answer has raised                                       *)
(* and, for the handlers that deliver the answer (send_tts_response):       *)
(*   "answered"    also: about to call VoiceVoxService.synthesize           *)
(*   "audio_query" synthesize awaiting the response to POST /audio_query    *)
(*   "synthesis"   synthesize awaiting the response to POST /synthesis      *)
(*   "sent"        followup.send has sent the reply                         *)
(*   "undelivered" synthesize has raised                                    *)

\* what one send_tts_response has done so far: its mention_user argument, the
\* requests synthesize made to the engine, the responses it got, the bytes
\* synthesize returned, the files the backup service wrote
NoDelivery ==
    [mention |-> TRUE, requests |-> <<>>, responses |-> <<>>, audio |-> <<>>,
     backups |-> <<>>]

IdleTask ==
    [pc |-> "idle", scope |-> 0, origin |-> "none", user |-> "", question |-> <<>>,
     attachments |-> <<>>, add_to_history |-> TRUE, hist |-> <<>>, image |-> 0,
     calls |-> <<>>, answer |-> <<>>, sent |-> <<>>, delivery |-> NoDelivery]

\* the invocations are numbered in the order they start
Started == Cardinality({ t \in Tasks : tasks[t].pc # "idle" })
NextTask == Started + 1

IsImage(content_type) == content_type \in ImageTypes

\* index of the first attachment the loop of get_answer takes, 0 when there is none
FirstImage(attachments) ==
    LET imgs == { i \in 1..Len(attachments) : IsImage(attachments[i]) }
    IN IF imgs = {} THEN 0 ELSE CHOOSE i \in imgs : \A j \in imgs : i <= j

AskCall(sys, hist, user_name, question) ==
    [kind |-> "ask",
     messages |-> ask_with_history(sys, hist, <<user_name, ": ">> \o question)]

\* get_answer from its entry to its first await; `log` is the scope's log at entry
StartGetAnswer(log, g, origin, user_name, question, attachments, add) ==
    LET hist == get_latest_history(log, latest_n)
        img == FirstImage(attachments)
    IN [pc |-> IF img # 0 THEN "read" ELSE "ask",
        scope |-> g, origin |-> origin, user |-> user_name, question |-> question,
        attachments |-> attachments, add_to_history |-> add, hist |-> hist,
        image |-> img,
        calls |-> IF img # 0 THEN <<>>
                  ELSE <<AskCall(system_prompt, hist, user_name, question)>>,
        answer |-> <<>>, sent |-> <<>>, delivery |-> NoDelivery]

\* combined_prompt of the image branch
CombinedPrompt(hist, user_name, question) ==
    JoinLines([i \in 1..Len(hist) |-> <<hist[i].role, ": ">> \o hist[i].content])
        \o <<"\n", user_name, ": ">> \o question

\* the entry of the history variable for one appended turn
Entry(turn, t, part) == [turn |-> turn, by |-> t, part |-> part]

---------------------------------------------------------------------------
(* cogs/ai_cog.py *)

\* the question on_message passes to get_answer
MessageQuestion(content) ==
    LET q == Strip(RemoveToken(content, BotMention))
    IN IF q = <<>> THEN <<"(Empty string)">> ELSE q

\* bot.user in message.mentions
MentionsBot(content) == \E i \in 1..Len(content) : content[i] = BotMention

\* mutant: the check of the bot's own messages is missing
RepliesToItself(author, content) ==
    /\ ~(author.bot /\ ~listen_all_messages)
    /\ (listen_all_messages \/ MentionsBot(content))

\* on_message reaches its get_answer call
Replies(author, content) ==
    /\ ~author.self
    /\ ~(author.bot /\ ~listen_all_messages)
    /\ (listen_all_messages \/ MentionsBot(content))

on_message(g, author, content, attachments) ==
    \E ts \in Timestamps :
        LET log == add_user_message(history[g], latest_n, ts, author.name, content)
            t == NextTask
        IN /\ history' = [history EXCEPT ![g] = log]
           /\ appended' = [appended EXCEPT ![g] =
                    Append(@, Entry(UserTurn(ts, author.name, content),
                                    IF Replies(author, content) THEN t ELSE 0, "message"))]
           /\ IF Replies(author, content)
              THEN /\ t \in Tasks
                   /\ tasks' = [tasks EXCEPT ![t] =
                          StartGetAnswer(log, g, "message", author.name,
                                         MessageQuestion(content), attachments, TRUE)]
              ELSE /\ attachments = <<>>   \* unread on this path: one value stands for all
                   /\ UNCHANGED tasks
           /\ UNCHANGED <<latest_n, system_prompt, listen_all_messages>>
           /\ UNCHANGED store_vars
           /\ UNCHANGED delivery_vars

\* mutant: the user turn is stored before the model is called
AskStoringFirst(g, user_name, text) ==
    \E ts \in Timestamps :
        LET t == NextTask
        IN /\ t \in Tasks
           /\ tasks' = [tasks EXCEPT ![t] =
                  StartGetAnswer(history[g], g, "command", user_name, text, <<>>, TRUE)]
           /\ history' = [history EXCEPT ![g] =
                  add_user_message(@, latest_n, ts, user_name, text)]
           /\ appended' = [appended EXCEPT ![g] =
                  Append(@, Entry(UserTurn(ts, user_name, text), t, "user"))]
           /\ UNCHANGED <<latest_n, system_prompt, listen_all_messages>>
           /\ UNCHANGED store_vars
           /\ UNCHANGED delivery_vars

\* /q, /ask and /voice up to the first await of get_answer
ask(g, user_name, text) ==
    LET t == NextTask
    IN /\ t \in Tasks
       /\ tasks' = [tasks EXCEPT ![t] =
              StartGetAnswer(history[g], g, "command", user_name, text, <<>>, TRUE)]
       /\ UNCHANGED <<latest_n, history, system_prompt, listen_all_messages, appended>>
       /\ UNCHANGED store_vars
       /\ UNCHANGED delivery_vars

\* get_answer invoked with an explicit add_to_history, on a message source
get_answer(g, user_name, question, attachments, add) ==
    LET t == NextTask
    IN /\ t \in Tasks
       /\ tasks' = [tasks EXCEPT ![t] =
              StartGetAnswer(history[g], g, "call", user_name, question, attachments, add)]
       /\ UNCHANGED <<latest_n, history, system_prompt, listen_all_messages, appended>>
       /\ UNCHANGED store_vars
       /\ UNCHANGED delivery_vars

\* attachment.read() returns: get_answer builds combined_prompt and calls
\* describe_image, which raises TypeError on a None system prompt
ReadReturns(t) ==
    LET k == tasks[t]
        text == CombinedPrompt(k.hist, k.user, k.question)
    IN /\ k.pc = "read"
       /\ tasks' = [tasks EXCEPT ![t] =
              IF system_prompt = NoneValue
              THEN [k EXCEPT !.pc = "failed"]
              ELSE [k EXCEPT !.pc = "describe",
                             !.calls = Append(@,
                                 [kind |-> "describe",
                                  image |-> k.image,
                                  mime_type |-> k.attachments[k.image],
                                  text |-> describe_image_text(system_prompt, text)])]]
       /\ UNCHANGED <<latest_n, history, system_prompt, listen_all_messages, appended>>
       /\ UNCHANGED store_vars
       /\ UNCHANGED delivery_vars

\* mutant: the assistant turn is appended before the user turn
StoreAssistantFirst(log, n, ts1, ts2, user_name, stored_question, answer) ==
    add_user_message(
        add_assistant_message(log, n, ts2, answer), n, ts1, user_name, stored_question)

\* the two appends of get_answer after its model call
StoreTurns(log, n, ts1, ts2, user_name, stored_question, answer) ==
    add_assistant_message(
        add_user_message(log, n, ts1, user_name, stored_question), n, ts2, answer)

\* mutant: the image branch stores the bare question
ImageQuestionUnmarked(question) == question

\* what the image branch stores as the question
ImageQuestion(question) == <<"[sent image] ">> \o question

\* whether the branch that ends at pc stores the turn
Stores(pc, add) == pc = "describe" \/ add

\* mutant: get_answer yields between its two appends
ModelReturnsStoringApart(t, raw) ==
    \E ts \in Timestamps :
        LET k == tasks[t]
            g == k.scope
            answer == remove_time_tag(ResponseText(raw, "No response."))
        IN /\ \/ /\ k.pc = "ask"
                 /\ tasks' = [tasks EXCEPT ![t] = [k EXCEPT !.pc = "storing", !.answer = answer]]
                 /\ history' = [history EXCEPT ![g] =
                        add_user_message(@, latest_n, ts, k.user, k.question)]
                 /\ appended' = [appended EXCEPT ![g] =
                        Append(@, Entry(UserTurn(ts, k.user, k.question), t, "user"))]
              \/ /\ k.pc = "storing"
                 /\ tasks' = [tasks EXCEPT ![t] = [k EXCEPT !.pc = "answered"]]
                 /\ history' = [history EXCEPT ![g] =
                        add_assistant_message(@, latest_n, ts, k.answer)]
                 /\ appended' = [appended EXCEPT ![g] =
                        Append(@, Entry(AssistantTurn(ts, k.answer), t, "assistant"))]
           /\ UNCHANGED <<latest_n, system_prompt, listen_all_messages>>
           /\ UNCHANGED store_vars
           /\ UNCHANGED delivery_vars

\* generate_content returns raw: the rest of get_answer
ModelReturns(t, raw) ==
    \E ts1, ts2 \in Timestamps :
        LET k == tasks[t]
            g == k.scope
            image == k.pc = "describe"
            answer == remove_time_tag(
                ResponseText(raw, IF image THEN "No description." ELSE "No response."))
            stored == IF image THEN ImageQuestion(k.question) ELSE k.question
            stores == Stores(k.pc, k.add_to_history)
        IN /\ k.pc \in {"describe", "ask"}
           /\ tasks' = [tasks EXCEPT ![t] = [k EXCEPT !.pc = "answered", !.answer = answer]]
           /\ history' = [history EXCEPT ![g] =
                  IF stores
                  THEN StoreTurns(@, latest_n, ts1, ts2, k.user, stored, answer)
                  ELSE @]
           /\ appended' = [appended EXCEPT ![g] =
                  IF stores
                  THEN @ \o <<Entry(UserTurn(ts1, k.user, stored), t, "user"),
                              Entry(AssistantTurn(ts2, answer), t, "assistant")>>
                  ELSE @]
           /\ UNCHANGED <<latest_n, system_prompt, listen_all_messages>>
           /\ UNCHANGED store_vars
           /\ UNCHANGED delivery_vars

\* mutant: get_answer repeats the call that raised
ModelFailsRetrying(t) ==
    /\ tasks[t].pc \in {"describe", "ask"}
    /\ tasks' = [tasks EXCEPT ![t].calls = Append(@, @[Len(@)])]
    /\ UNCHANGED <<latest_n, history, system_prompt, listen_all_messages, appended>>
    /\ UNCHANGED store_vars
    /\ UNCHANGED delivery_vars

\* generate_content raises: nothing in get_answer catches it
ModelFails(t) ==
    /\ tasks[t].pc \in {"describe", "ask"}
    /\ tasks' = [tasks EXCEPT ![t].pc = "failed"]
    /\ UNCHANGED <<latest_n, history, system_prompt, listen_all_messages, appended>>
    /\ UNCHANGED store_vars
    /\ UNCHANGED delivery_vars

\* the content send_tts_response sends: the mention of the user, then the answer
Displayed(user_name, answer, mention) ==
    (IF mention THEN <<"<@", user_name, "> ">> ELSE <<>>) \o answer

\* mutant: the range check is missing
SetHistoryLengthUnchecked(length) ==
    /\ latest_n' = length
    /\ UNCHANGED <<history, system_prompt, listen_all_messages, tasks, appended>>
    /\ UNCHANGED store_vars
    /\ UNCHANGED delivery_vars

\* mutant: the stored logs are trimmed to the new length at once
SetHistoryLengthTrimming(length) ==
    /\ latest_n' = IF length < MinHistoryLength \/ length > MaxHistoryLength
                   THEN latest_n ELSE length
    /\ history' = [g \in Scopes |-> _trim_history(history[g], latest_n')]
    /\ UNCHANGED <<system_prompt, listen_all_messages, tasks, appended>>
    /\ UNCHANGED store_vars
    /\ UNCHANGED delivery_vars

set_history_length(length) ==
    /\ latest_n' = IF length < MinHistoryLength \/ length > MaxHistoryLength
                   THEN latest_n ELSE length
    /\ UNCHANGED <<history, system_prompt, listen_all_messages, tasks, appended>>
    /\ UNCHANGED store_vars
    /\ UNCHANGED delivery_vars

\* mutant: every scope's log is emptied
ClearEveryScope(g) ==
    /\ history' = [h \in Scopes |-> <<>>]
    /\ UNCHANGED <<latest_n, system_prompt, listen_all_messages, tasks, appended>>
    /\ UNCHANGED store_vars
    /\ UNCHANGED delivery_vars

clear_history(g) ==
    /\ history' = [history EXCEPT ![g] = <<>>]
    /\ UNCHANGED <<latest_n, system_prompt, listen_all_messages, tasks, appended>>
    /\ UNCHANGED store_vars
    /\ UNCHANGED delivery_vars

toggle_listen ==
    /\ listen_all_messages' = ~listen_all_messages
    /\ UNCHANGED <<latest_n, history, system_prompt, tasks, appended>>
    /\ UNCHANGED store_vars
    /\ UNCHANGED delivery_vars

change_system_prompt(prompt) ==
    /\ system_prompt' = prompt
    /\ UNCHANGED <<latest_n, history, listen_all_messages, tasks, appended>>
    /\ UNCHANGED store_vars
    /\ UNCHANGED delivery_vars

---------------------------------------------------------------------------
(* services/voice_config.py *)

\* Python values: the type and the tokens of repr(value)
PyNone == [type |-> "NoneType", repr |-> <<"None">>]
PyBool(b) == [type |-> "bool", repr |-> IF b THEN <<"True">> ELSE <<"False">>]
PyInt(digits) == [type |-> "int", repr |-> <<digits>>]
PyFloat(whole, frac) == [type |-> "float", repr |-> <<whole, ".", frac>>]
PyStr(chars) == [type |-> "str", repr |-> <<"'", chars, "'">>]

\* class VoiceVoxConfigKey(Enum): member name -> value
VoiceVoxConfigKey ==
    [SPEED_SCALE |-> "speedScale", PITCH_SCALE |-> "pitchScale",
     INTONATION_SCALE |-> "intonationScale", VOLUME_SCALE |-> "volumeScale",
     PAUSE_LENGTH_SCALE |-> "pauseLengthScale", PAUSE_LENGTH |-> "pauseLength",
     PRE_PHONEME_LENGTH |-> "prePhonemeLength", POST_PHONEME_LENGTH |-> "postPhonemeLength",
     OUTPUT_SAMPLING_RATE |-> "outputSamplingRate", OUTPUT_STEREO |-> "outputStereo"]

\* VoiceVoxConfig.DEFAULTS
DEFAULTS ==
    ("speedScale" :> PyFloat("1", "0")) @@ ("pitchScale" :> PyInt("0")) @@
    ("intonationScale" :> PyFloat("1", "0")) @@ ("volumeScale" :> PyFloat("1", "5")) @@
    ("prePhonemeLength" :> PyFloat("0", "1")) @@ ("postPhonemeLength" :> PyFloat("0", "1")) @@
    ("pauseLength" :> PyNone) @@ ("pauseLengthScale" :> PyFloat("0", "9")) @@
    ("outputSamplingRate" :> PyInt("44100")) @@ ("outputStereo" :> PyBool(TRUE))

\* a key argument: a VoiceVoxConfigKey member or a plain str
EnumKey(member) == [isenum |-> TRUE, name |-> member]
StrKey(str) == [isenum |-> FALSE, name |-> str]

\* if isinstance(key, VoiceVoxConfigKey): key = key.value
KeyValue(key) == IF key.isenum THEN VoiceVoxConfigKey[key.name] ELSE key.name

\* the empty dict; None where a dict is expected is as falsy as it
EmptyDict == [k \in {} |-> PyNone]

\* dict.update
Update(d, other) ==
    [k \in (DOMAIN d) \cup (DOMAIN other) |-> IF k \in DOMAIN other THEN other[k] ELSE d[k]]

\* VoiceVoxConfig.__init__: the _config of the new store
VoiceVoxConfig(config) ==
    IF config # EmptyDict THEN Update(defaults, config) ELSE defaults

\* mutant: None and the booleans are written as Python prints them
JsonLiteralAsRepr(v) ==
    IF v.type = "str" THEN <<"\"", v.repr[2], "\"">> ELSE v.repr

\* json.dump of one value: the tokens of its JSON literal
JsonLiteral(v) ==
    IF v.type = "NoneType" THEN <<"null">>
    ELSE IF v.type = "bool" THEN (IF v.repr = <<"True">> THEN <<"true">> ELSE <<"false">>)
    ELSE IF v.type = "str" THEN <<"\"", v.repr[2], "\"">>
    ELSE v.repr

\* json.load of one literal
JsonValue(lit) ==
    IF lit = <<"null">> THEN PyNone
    ELSE IF lit \in {<<"true">>, <<"false">>} THEN PyBool(lit = <<"true">>)
    ELSE IF lit[1] = "\"" THEN PyStr(lit[2])
    ELSE IF \E i \in 1..Len(lit) : lit[i] \in {".", "e", "E"}
         THEN [type |-> "float", repr |-> lit]
    ELSE [type |-> "int", repr |-> lit]

\* the file after json.dump(self._config, f)
Saved(config) == [kind |-> "object", doc |-> [k \in DOMAIN config |-> JsonLiteral(config[k])]]

\* the dict json.load(f) returns for a file holding a JSON object
Parsed(file) == [k \in DOMAIN file.doc |-> JsonValue(file.doc[k])]

\* states of voicevox_config.json other than a JSON object
MissingFile == [kind |-> "missing", doc |-> EmptyDict]
InvalidFile == [kind |-> "invalid", doc |-> EmptyDict]
DeniedFile == [kind |-> "denied", doc |-> EmptyDict]

\* voicevox_config.json as the process can find it
Files ==
    { MissingFile, InvalidFile, DeniedFile,
      [kind |-> "object", doc |-> "speedScale" :> <<"1", ".", "2">>],
      [kind |-> "object", doc |-> ("pitchScale" :> <<"2">>) @@ ("foo" :> <<"1">>)] }

\* dicts handed to VoiceVoxConfig(...)
Overrides ==
    { EmptyDict, "speedScale" :> PyFloat("1", "2"), "foo" :> PyInt("1") }

\* arguments of set
KeyInputs == { EnumKey("SPEED_SCALE"), StrKey("pauseLength"), StrKey("foo") }
ValueInputs == { PyFloat("1", "2"), PyNone }

\* query templates of the engine handed to apply_to_query
Queries ==
    { ("speedScale" :> PyFloat("1", "0")) @@ ("pauseLength" :> PyFloat("0", "3"))
         @@ ("kana" :> PyStr("a")),
      ("pitchScale" :> PyFloat("0", "0")) @@ ("kana" :> PyStr("b")) }

\* what open() and json.load() raise on the file, "" when they succeed
ReadError(file) ==
    IF file.kind = "missing" THEN "FileNotFoundError"
    ELSE IF file.kind = "denied" THEN "PermissionError"
    ELSE IF file.kind = "invalid" THEN "JSONDecodeError"
    ELSE ""

\* a store operation as its caller sees it: the operation, its key and its other
\* argument as passed, what it raised ("" when it returned), what it returned, and
\* the argument object as it is once the operation has ended
Outcome(op, key, arg, raised, value, object) ==
    [op |-> op, key |-> key, arg |-> arg, raised |-> raised, value |-> value,
     object |-> object]

NoOutcome == Outcome("none", "", EmptyDict, "", EmptyDict, EmptyDict)

\* a store is constructed with the given overrides
new_config(config) ==
    /\ voicevox_config' = VoiceVoxConfig(config)
    /\ outcome' = Outcome("__init__", "", config, "", VoiceVoxConfig(config), config)
    /\ UNCHANGED persisted
    /\ UNCHANGED chat_vars
    /\ UNCHANGED delivery_vars
    /\ UNCHANGED defaults

\* mutant: _config is the class table itself (no deepcopy), so the assignment
\* lands in DEFAULTS as well
SetThroughDefaults(key, value) ==
    LET k == KeyValue(key)
    IN /\ IF k \notin DOMAIN defaults
          THEN /\ outcome' = Outcome("set", k, value, "KeyError", EmptyDict, value)
               /\ UNCHANGED <<voicevox_config, defaults>>
          ELSE /\ outcome' = Outcome("set", k, value, "", EmptyDict, value)
               /\ voicevox_config' = Update(voicevox_config, k :> value)
               /\ defaults' = Update(defaults, k :> value)
       /\ UNCHANGED persisted
       /\ UNCHANGED chat_vars
       /\ UNCHANGED delivery_vars

\* mutant: the membership test is missing
SetUnchecked(key, value) ==
    /\ outcome' = Outcome("set", KeyValue(key), value, "", EmptyDict, value)
    /\ voicevox_config' = Update(voicevox_config, KeyValue(key) :> value)
    /\ UNCHANGED persisted
    /\ UNCHANGED chat_vars
    /\ UNCHANGED delivery_vars
    /\ UNCHANGED defaults

\* mutant: set writes the file after the assignment
SetSaving(key, value) ==
    LET k == KeyValue(key)
    IN /\ IF k \notin DOMAIN defaults
          THEN /\ outcome' = Outcome("set", k, value, "KeyError", EmptyDict, value)
               /\ UNCHANGED <<voicevox_config, persisted>>
          ELSE /\ outcome' = Outcome("set", k, value, "", EmptyDict, value)
               /\ voicevox_config' = Update(voicevox_config, k :> value)
               /\ persisted' = Saved(voicevox_config')
       /\ UNCHANGED chat_vars
       /\ UNCHANGED delivery_vars
       /\ UNCHANGED defaults

set(key, value) ==
    LET k == KeyValue(key)
    IN /\ IF k \notin DOMAIN defaults
          THEN /\ outcome' = Outcome("set", k, value, "KeyError", EmptyDict, value)
               /\ UNCHANGED voicevox_config
          ELSE /\ outcome' = Outcome("set", k, value, "", EmptyDict, value)
               /\ voicevox_config' = Update(voicevox_config, k :> value)
       /\ UNCHANGED persisted
       /\ UNCHANGED chat_vars
       /\ UNCHANGED delivery_vars
       /\ UNCHANGED defaults

\* self._config = deepcopy(self.DEFAULTS)
reset ==
    /\ voicevox_config' = defaults
    /\ outcome' = Outcome("reset", "", EmptyDict, "", EmptyDict, EmptyDict)
    /\ UNCHANGED persisted
    /\ UNCHANGED chat_vars
    /\ UNCHANGED delivery_vars
    /\ UNCHANGED defaults

\* mutant: None values are applied like the others
AppliedWithNulls(config, query_data) ==
    [k \in DOMAIN query_data |-> IF k \in DOMAIN config THEN config[k] ELSE query_data[k]]

\* deepcopy(self._config)
as_dict ==
    /\ outcome' = Outcome("as_dict", "", EmptyDict, "", voicevox_config, EmptyDict)
    /\ UNCHANGED <<voicevox_config, persisted>>
    /\ UNCHANGED chat_vars
    /\ UNCHANGED delivery_vars
    /\ UNCHANGED defaults

\* the dict apply_to_query returns
Applied(config, query_data) ==
    [k \in DOMAIN query_data |->
        IF k \in DOMAIN config /\ config[k] # PyNone THEN config[k] ELSE query_data[k]]

\* the loop runs on a deepcopy: the caller's query_data stays as it was passed
apply_to_query(query_data) ==
    /\ outcome' = Outcome("apply_to_query", "", query_data, "",
                          Applied(voicevox_config, query_data), query_data)
    /\ UNCHANGED <<voicevox_config, persisted>>
    /\ UNCHANGED chat_vars
    /\ UNCHANGED delivery_vars
    /\ UNCHANGED defaults

save ==
    /\ persisted' = Saved(voicevox_config)
    /\ outcome' = Outcome("save", "", EmptyDict, "", EmptyDict, EmptyDict)
    /\ UNCHANGED voicevox_config
    /\ UNCHANGED chat_vars
    /\ UNCHANGED delivery_vars
    /\ UNCHANGED defaults

\* VoiceVoxConfig.load: the store it returns takes the place of the one at hand
load ==
    LET err == ReadError(persisted)
    IN /\ IF err = ""
          THEN /\ voicevox_config' = VoiceVoxConfig(Parsed(persisted))
               /\ outcome' = Outcome("load", "", EmptyDict, "", voicevox_config', EmptyDict)
               /\ UNCHANGED persisted
          ELSE IF err = "FileNotFoundError"
          THEN /\ voicevox_config' = VoiceVoxConfig(EmptyDict)
               /\ persisted' = Saved(voicevox_config')
               /\ outcome' = Outcome("load", "", EmptyDict, "", voicevox_config', EmptyDict)
          ELSE /\ outcome' = Outcome("load", "", EmptyDict, err, EmptyDict, EmptyDict)
               /\ UNCHANGED <<voicevox_config, persisted>>
       /\ UNCHANGED chat_vars
       /\ UNCHANGED delivery_vars
       /\ UNCHANGED defaults

---------------------------------------------------------------------------
(* cogs/ai_cog.py: send_tts_response, services/voicevox.py: synthesize,     *)
(* services/backup_service.py                                               *)

\* audio bytes the engine answers POST /synthesis with
WavBytes == { <<"RIFF-a">>, <<"RIFF-b">> }

\* datetime.now() rendered to the second by BackupService._make_timestamp
BackupClock == { 0, 1 }

\* a POST of synthesize: params speaker and text, body json
Request(endpoint, speaker, text, body) ==
    [endpoint |-> endpoint, speaker |-> speaker, text |-> text, json |-> body]

\* a file written by backup_audio / backup_text:
\* <base_dir>/<kind>/<speaker_id>/<guild_id>_<timestamp>.<ext>
Artifact(kind, speaker_id, guild_id, timestamp, content) ==
    [kind |-> kind, speaker_id |-> speaker_id, guild_id |-> guild_id,
     timestamp |-> timestamp, content |-> content]

\* send_tts_response from its entry to the first await of synthesize; it follows
\* the return of get_answer in the same handler, which passes
\* mention_user=self.mention_user
send_tts_response(t) ==
    LET k == tasks[t]
    IN /\ k.pc = "answered"
       /\ k.origin \in {"message", "command"}
       /\ tasks' = [tasks EXCEPT ![t] =
              [k EXCEPT !.pc = "audio_query",
                        !.delivery.mention = mention_user,
                        !.delivery.requests =
                            <<Request("audio_query", default_speaker, k.answer, EmptyDict)>>]]
       /\ UNCHANGED <<latest_n, history, system_prompt, listen_all_messages, appended>>
       /\ UNCHANGED store_vars
       /\ UNCHANGED delivery_vars

\* mutant: the template goes to the engine as it came, the store is not merged
AudioQueryReturnsUnmerged(t, query) ==
    LET k == tasks[t]
    IN /\ k.pc = "audio_query"
       /\ tasks' = [tasks EXCEPT ![t] =
              [k EXCEPT !.pc = "synthesis",
                        !.delivery.responses = Append(@, [kind |-> "json", body |-> query]),
                        !.delivery.requests =
                            Append(@, Request("synthesis", k.delivery.requests[1].speaker,
                                              <<>>, query))]]
       /\ UNCHANGED <<latest_n, history, system_prompt, listen_all_messages, appended>>
       /\ UNCHANGED store_vars
       /\ UNCHANGED delivery_vars

\* the engine answers POST /audio_query with a template: synthesize merges the
\* store into it and posts it to /synthesis, for the speaker it started with
AudioQueryReturns(t, query) ==
    LET k == tasks[t]
    IN /\ k.pc = "audio_query"
       /\ tasks' = [tasks EXCEPT ![t] =
              [k EXCEPT !.pc = "synthesis",
                        !.delivery.responses = Append(@, [kind |-> "json", body |-> query]),
                        !.delivery.requests =
                            Append(@, Request("synthesis", k.delivery.requests[1].speaker,
                                              <<>>, Applied(voicevox_config, query)))]]
       /\ UNCHANGED <<latest_n, history, system_prompt, listen_all_messages, appended>>
       /\ UNCHANGED store_vars
       /\ UNCHANGED delivery_vars

\* mutant: the text file holds the answer as the engine got it
WrittenWithoutMention(k, wav, ts1, ts2) ==
    (IF backup_audio
     THEN <<Artifact("audio", default_speaker, k.scope, ts1, wav)>> ELSE <<>>)
    \o (IF backup_text
        THEN <<Artifact("text", default_speaker, k.scope, ts2, k.answer)>> ELSE <<>>)

\* the files send_tts_response has written once synthesize has returned wav: the
\* backup flags and the speaker are read now, and each of backup_audio and
\* backup_text reads the clock for itself
Written(k, wav, ts1, ts2) ==
    (IF backup_audio
     THEN <<Artifact("audio", default_speaker, k.scope, ts1, wav)>> ELSE <<>>)
    \o (IF backup_text
        THEN <<Artifact("text", default_speaker, k.scope, ts2,
                        Displayed(k.user, k.answer, k.delivery.mention))>>
        ELSE <<>>)

\* the engine answers POST /synthesis with wav: synthesize returns it and
\* send_tts_response runs to its end
SynthesisReturns(t, wav) ==
    \E ts1, ts2 \in BackupClock :
        LET k == tasks[t]
        IN /\ k.pc = "synthesis"
           /\ ts1 <= ts2
           /\ ~(backup_audio /\ backup_text) => ts1 = ts2
           /\ tasks' = [tasks EXCEPT ![t] =
                  [k EXCEPT !.pc = "sent",
                            !.delivery.responses = Append(@, [kind |-> "bytes", body |-> wav]),
                            !.delivery.audio = wav,
                            !.delivery.backups = Written(k, wav, ts1, ts2),
                            !.sent = Append(@,
                                [kind |-> "reply",
                                 content |-> Displayed(k.user, k.answer, k.delivery.mention)])]]
           /\ UNCHANGED <<latest_n, history, system_prompt, listen_all_messages, appended>>
           /\ UNCHANGED store_vars
           /\ UNCHANGED delivery_vars

\* a request of synthesize raises (connection error, raise_for_status): nothing in
\* synthesize, send_tts_response or the handlers catches it
SynthesisFails(t) ==
    /\ tasks[t].pc \in {"audio_query", "synthesis"}
    /\ tasks' = [tasks EXCEPT ![t].pc = "undelivered"]
    /\ UNCHANGED <<latest_n, history, system_prompt, listen_all_messages, appended>>
    /\ UNCHANGED store_vars
    /\ UNCHANGED delivery_vars

toggle_mention ==
    /\ mention_user' = ~mention_user
    /\ UNCHANGED <<backup_audio, backup_text, default_speaker>>
    /\ UNCHANGED chat_vars
    /\ UNCHANGED store_vars

toggle_backup_audio ==
    /\ backup_audio' = ~backup_audio
    /\ UNCHANGED <<mention_user, backup_text, default_speaker>>
    /\ UNCHANGED chat_vars
    /\ UNCHANGED store_vars

toggle_backup_text ==
    /\ backup_text' = ~backup_text
    /\ UNCHANGED <<mention_user, backup_audio, default_speaker>>
    /\ UNCHANGED chat_vars
    /\ UNCHANGED store_vars

---------------------------------------------------------------------------
(* services/message_preprocessor.py.  A mention is one token of the text;   *)
(* what the regex of replace_mentions reads in it is given by a table.      *)

\* the id captured by <@&?(\d+)> in each token that it matches; the nickname
\* form "<@!7>" is a token that it does not match
MentionId ==
    ("<@7>" :> "7") @@ ("<@&7>" :> "7") @@ ("<@5>" :> "5") @@ ("<@&5>" :> "5")
        @@ (BotMention :> "bot")

\* f"<@{user_id}>"
PlainMention == ("7" :> "<@7>") @@ ("5" :> "<@5>") @@ ("bot" :> BotMention)

\* {m.id: m.display_name for m in message.mentions} of a message that mentions
\* nobody
NoMentions == [id \in {} |-> ""]

\* "".join(parts)
RECURSIVE JoinAll(_)
JoinAll(parts) == IF parts = <<>> THEN <<>> ELSE Head(parts) \o JoinAll(Tail(parts))

\* " ".join(parts)
RECURSIVE JoinSpaced(_)
JoinSpaced(parts) ==
    IF parts = <<>> THEN <<>>
    ELSE IF Len(parts) = 1 THEN parts[1]
    ELSE parts[1] \o <<" ">> \o JoinSpaced(Tail(parts))

\* one " [Image] " for every image attachment
_extract_image_refs(attachments) ==
    [i \in 1..Len(SelectSeq(attachments, IsImage)) |-> <<" ", "[Image]", " ">>]

\* message.reference is <<>> when the message is no reply or the replied message
\* is not resolved, and holds the replied message otherwise
format_with_reply(message) ==
    IF message.reference # <<>>
    THEN LET replied_msg == message.reference[1]
             image_refs == _extract_image_refs(replied_msg.attachments)
             replied_content ==
                 IF image_refs # <<>>
                 THEN Strip(replied_msg.content \o <<" ">> \o JoinSpaced(image_refs))
                 ELSE replied_msg.content
         IN Strip(<<"[reply: ", replied_msg.author, ": ">> \o replied_content
                  \o <<"]", " ">> \o message.content)
    ELSE Strip(message.content)

\* what repl returns for one token of the text
Repl(mention_map, tok) ==
    IF tok \in DOMAIN MentionId
    THEN LET user_id == MentionId[tok]
         IN IF user_id \in DOMAIN mention_map /\ mention_map[user_id] # ""
            THEN <<"@", mention_map[user_id]>>
            ELSE <<PlainMention[user_id]>>
    ELSE <<tok>>

\* re.sub(r"<@&?(\d+)>", repl, content)
replace_mentions(mention_map, content) ==
    JoinAll([i \in 1..Len(content) |-> Repl(mention_map, content[i])])

normalize(message) == replace_mentions(message.mentions, format_with_reply(message))

\* a call of the function op that is about to be made with the argument arg,
\* and the call once it has returned value
Pending(op, arg) == Outcome("call", op, arg, "", EmptyDict, EmptyDict)
Returned(op, arg, value) == Outcome(op, "", arg, "", value, EmptyDict)
IsPending(op) == outcome.op = "call" /\ outcome.key = op

CallReplaceMentions ==
    /\ IsPending("replace_mentions")
    /\ outcome' = Returned("replace_mentions", outcome.arg,
                           replace_mentions(outcome.arg.mentions, outcome.arg.content))
    /\ UNCHANGED <<voicevox_config, persisted>>
    /\ UNCHANGED chat_vars
    /\ UNCHANGED delivery_vars
    /\ UNCHANGED defaults

CallNormalize ==
    /\ IsPending("normalize")
    /\ outcome' = Returned("normalize", outcome.arg, normalize(outcome.arg))
    /\ UNCHANGED <<voicevox_config, persisted>>
    /\ UNCHANGED chat_vars
    /\ UNCHANGED delivery_vars
    /\ UNCHANGED defaults

---------------------------------------------------------------------------
(* utils/text.py: remove_parentheses and remove_chinese_sentences.  Here a  *)
(* text is the sequence of its characters, each its Unicode code point.     *)

SetMin(S) == CHOOSE x \in S : \A y \in S : x <= y
SetMax(S) == CHOOSE x \in S : \A y \in S : x >= y

\* the whitespace of the texts: space and line feed
Spaces == { \H20, \H0A }

\* str.strip()
StripChars(s) ==
    LET kept == { i \in 1..Len(s) : s[i] \notin Spaces }
    IN IF kept = {} THEN <<>> ELSE SubSeq(s, SetMin(kept), SetMax(kept))

\* "(" and ")"
Parens == [open |-> \H28, close |-> \H29]

\* end of the match of \([^)]*\) starting at i, or 0 when there is none
ParensEnd(s, i) ==
    IF s[i] = Parens.open
    THEN LET closers == { j \in (i + 1)..Len(s) : s[j] = Parens.close }
         IN IF closers = {} THEN 0 ELSE SetMin(closers)
    ELSE 0

RECURSIVE RemoveParensFrom(_, _)
RemoveParensFrom(s, i) ==
    IF i > Len(s) THEN <<>>
    ELSE LET e == ParensEnd(s, i)
         IN IF e # 0 THEN RemoveParensFrom(s, e + 1)
            ELSE <<s[i]>> \o RemoveParensFrom(s, i + 1)

\* mutant: the match runs to the last ")" of the text
RemoveParenthesesGreedy(text) ==
    LET opens == { i \in 1..Len(text) : text[i] = Parens.open }
        closes == { i \in 1..Len(text) : text[i] = Parens.close }
    IN IF opens # {} /\ closes # {} /\ SetMin(opens) < SetMax(closes)
       THEN StripChars(SubSeq(text, 1, SetMin(opens) - 1)
                       \o SubSeq(text, SetMax(closes) + 1, Len(text)))
       ELSE StripChars(text)

\* PARENS_PATTERN.sub("", text).strip()
remove_parentheses(text) == StripChars(RemoveParensFrom(text, 1))

\* the class of the split pattern: ideographic full stop, fullwidth exclamation
\* mark, fullwidth question mark, horizontal ellipsis
Terminals == { \H3002, \HFF01, \HFF1F, \H2026 }

\* re.split(r'(?<=[...])', text): a cut after every terminal, the end of the text
\* included
RECURSIVE Sentences(_)
Sentences(s) ==
    LET ends == { i \in 1..Len(s) : s[i] \in Terminals }
    IN IF ends = {} THEN <<s>>
       ELSE <<SubSeq(s, 1, SetMin(ends))>>
            \o Sentences(SubSeq(s, SetMin(ends) + 1, Len(s)))

\* CHINESE_PATTERN
IsChinese(c) == c \in \H4E00..\H9FFF \/ c \in \H3400..\H4DBF \/ c \in \HF900..\HFAFF

\* LETTER_PATTERN
IsLetter(c) == IsChinese(c) \/ c \in \H3040..\H309F \/ c \in \H30A0..\H30FF

\* len(LETTER_PATTERN.findall(s)), len(CHINESE_PATTERN.findall(s))
Letters(s) == Cardinality({ i \in 1..Len(s) : IsLetter(s[i]) })
ChineseChars(s) == Cardinality({ i \in 1..Len(s) : IsChinese(s[i]) })

\* mutant: a sentence is skipped as soon as half of its letters are Chinese
SkippedFromHalf(s) == Letters(s) > 0 /\ ChineseChars(s) * 100 >= 50 * Letters(s)

\* the sentence is skipped: it has letters and
\* len(chinese_chars) / len(letters) > 0.95, in hundredths
Skipped(s) == Letters(s) > 0 /\ ChineseChars(s) * 100 > 95 * Letters(s)

remove_chinese_sentences(text) ==
    LET kept == SelectSeq(Sentences(text), LAMBDA s : ~Skipped(s))
    IN JoinAll([i \in 1..Len(kept) |-> StripChars(kept[i])])

CallRemoveParentheses ==
    /\ IsPending("remove_parentheses")
    /\ outcome' = Returned("remove_parentheses", outcome.arg,
                           remove_parentheses(outcome.arg))
    /\ UNCHANGED <<voicevox_config, persisted>>
    /\ UNCHANGED chat_vars
    /\ UNCHANGED delivery_vars
    /\ UNCHANGED defaults

CallRemoveChineseSentences ==
    /\ IsPending("remove_chinese_sentences")
    /\ outcome' = Returned("remove_chinese_sentences", outcome.arg,
                           remove_chinese_sentences(outcome.arg))
    /\ UNCHANGED <<voicevox_config, persisted>>
    /\ UNCHANGED chat_vars
    /\ UNCHANGED delivery_vars
    /\ UNCHANGED defaults

---------------------------------------------------------------------------
(* cogs/ai_cog.py: the handlers that reset or change settings.  Those that  *)
(* call get_settings() run VoiceVoxConfig.load on voicevox_config.json and  *)
(* drop the store it returns.                                               *)

\* get_settings() raises: load lets every error but FileNotFoundError through
SettingsRaise(file) == ReadError(file) \notin {"", "FileNotFoundError"}

\* the file once get_settings() has returned: load writes the defaults when it
\* finds none
AfterSettings(file) ==
    IF ReadError(file) = "FileNotFoundError" THEN Saved(VoiceVoxConfig(EmptyDict)) ELSE file

reset_system_prompt ==
    /\ IF SettingsRaise(persisted)
       THEN UNCHANGED <<system_prompt, persisted>>
       ELSE /\ \E p \in SettingsPrompts : system_prompt' = p
            /\ persisted' = AfterSettings(persisted)
    /\ UNCHANGED <<latest_n, history, listen_all_messages, tasks, appended>>
    /\ UNCHANGED <<voicevox_config, outcome, defaults>>
    /\ UNCHANGED delivery_vars

change_speaker(speaker_id) ==
    /\ default_speaker' = speaker_id
    /\ UNCHANGED <<mention_user, backup_audio, backup_text>>
    /\ UNCHANGED chat_vars
    /\ UNCHANGED store_vars

\* bot._settings is the Settings object of startup
reset_speaker ==
    /\ default_speaker' = ConfiguredSpeaker
    /\ UNCHANGED <<mention_user, backup_audio, backup_text>>
    /\ UNCHANGED chat_vars
    /\ UNCHANGED store_vars

\* mutant: the mention setting is left as it is
ResetAllButMention(g) ==
    /\ history' = [history EXCEPT ![g] = <<>>]
    /\ \E p \in SettingsPrompts : system_prompt' = p
    /\ persisted' = AfterSettings(persisted)
    /\ voicevox_config' = defaults
    /\ default_speaker' = ConfiguredSpeaker
    /\ listen_all_messages' = FALSE
    /\ UNCHANGED <<latest_n, tasks, appended, outcome, defaults>>
    /\ UNCHANGED <<mention_user, backup_audio, backup_text>>

\* the scope's log is cleared before get_settings() is called: when that raises,
\* the handler ends there
reset_all(g) ==
    /\ history' = [history EXCEPT ![g] = <<>>]
    /\ IF SettingsRaise(persisted)
       THEN UNCHANGED <<system_prompt, persisted, voicevox_config, default_speaker,
                        mention_user, listen_all_messages>>
       ELSE /\ \E p \in SettingsPrompts : system_prompt' = p
            /\ persisted' = AfterSettings(persisted)
            /\ voicevox_config' = defaults
            /\ default_speaker' = ConfiguredSpeaker
            /\ mention_user' = TRUE
            /\ listen_all_messages' = FALSE
    /\ UNCHANGED <<latest_n, tasks, appended, outcome, defaults>>
    /\ UNCHANGED <<backup_audio, backup_text>>


---------------------------------------------------------------------------
(* The specification *)

\* AICog.__init__ and VoiceVoxService.__init__
DeliveryInit ==
    /\ mention_user = TRUE
    /\ backup_audio = TRUE
    /\ backup_text = TRUE
    /\ default_speaker = ConfiguredSpeaker

\* setup: ChatHistoryManager(latest_n), GeminiService(system_prompt or "")
Init ==
    /\ latest_n \in 1..MaxN
    /\ history = [g \in Scopes |-> <<>>]
    /\ system_prompt \in Prompts
    /\ listen_all_messages = FALSE
    /\ tasks = [t \in Tasks |-> IdleTask]
    /\ appended = [g \in Scopes |-> <<>>]
    /\ defaults = DEFAULTS
    /\ voicevox_config = DEFAULTS
    /\ persisted = Saved(DEFAULTS)
    /\ outcome = NoOutcome
    /\ DeliveryInit

\* the history store under every handler that reads or writes it, one get_answer
\* invocation after another
Next ==
    \/ /\ Received < MaxMessages
       /\ \E g \in Scopes, a \in {Alice}, c \in Contents, at \in AttachmentLists :
              /\ Replies(a, c) => Started < MaxCalls
              /\ on_message(g, a, c, at)
    \/ /\ Started < MaxCalls
       /\ \E g \in Scopes, c \in CommandTexts : ask(g, Alice.name, c)
    \/ /\ Started < MaxCalls
       /\ \E g \in Scopes, c \in CommandTexts, at \in AttachmentLists :
              get_answer(g, Alice.name, c, at, FALSE)
    \/ \E t \in Tasks : ReadReturns(t)
    \/ \E t \in Tasks, raw \in RawResponses : ModelReturns(t, raw)
    \/ \E t \in Tasks : ModelFails(t)
    \/ \E n \in LengthInputs : set_history_length(n)
    \/ \E g \in Scopes : clear_history(g)

Spec == Init /\ [][Next]_vars

\* the text flow of one guild under concurrent invocations: appends only
NextConcurrent ==
    \/ \E a \in {Alice, Self}, c \in { <<"hi">>, <<BotMention, " ", "hi">> } :
            /\ Received < MaxMessages
            /\ Replies(a, c) => Started < MaxTasks
            /\ on_message(1, a, c, <<>>)
    \/ \E c \in CommandTexts :
            /\ Started < MaxTasks
            /\ ask(1, Alice.name, c)
    \/ \E t \in Tasks, raw \in RawResponses : ModelReturns(t, raw)
    \/ \E t \in Tasks : ModelFails(t)

SpecConcurrent == Init /\ [][NextConcurrent]_vars

\* a reply-triggering message or a command from its arrival to the end of its
\* handler, the delivery included
NextDelivery ==
    \/ \E c \in Contents :
            /\ Received < MaxMessages
            /\ Replies(Alice, c) => Started < MaxCalls
            /\ on_message(1, Alice, c, <<>>)
    \/ \E c \in CommandTexts :
            /\ Started < MaxCalls
            /\ ask(1, Alice.name, c)
    \/ \E t \in Tasks, raw \in RawResponses : ModelReturns(t, raw)
    \/ \E t \in Tasks : ModelFails(t)
    \/ \E t \in Tasks : send_tts_response(t)
    \/ \E t \in Tasks, query \in Queries : AudioQueryReturns(t, query)
    \/ \E t \in Tasks, wav \in WavBytes : SynthesisReturns(t, wav)
    \/ \E t \in Tasks : SynthesisFails(t)

\* the event loop resumes every handler whose awaited call has ended, and every
\* call to the model or to the synthesis engine ends by returning or by raising
SpecDelivery == Init /\ [][NextDelivery]_vars /\ WF_vars(NextDelivery)

\* the response of the model in the deliveries of SpecVoice
SpokenResponses == { <<"[", "time: ", "12:00", "]", " ", "ok">> }

\* setup with the store VoiceVoxService is built with made from each dict of
\* overrides (voice_config=VoiceVoxConfig(...))
InitVoice ==
    /\ latest_n = 1
    /\ history = [g \in Scopes |-> <<>>]
    /\ system_prompt = <<>>
    /\ listen_all_messages = FALSE
    /\ tasks = [t \in Tasks |-> IdleTask]
    /\ appended = [g \in Scopes |-> <<>>]
    /\ defaults = DEFAULTS
    /\ voicevox_config \in { VoiceVoxConfig(config) : config \in Overrides }
    /\ persisted = Saved(DEFAULTS)
    /\ outcome = NoOutcome
    /\ DeliveryInit

\* the delivery of the answers of commands under every setting of the cog
NextVoice ==
    \/ \E c \in CommandTexts :
            /\ Started < MaxCalls
            /\ ask(1, Alice.name, c)
    \/ \E t \in Tasks, raw \in SpokenResponses : ModelReturns(t, raw)
    \/ \E t \in Tasks : send_tts_response(t)
    \/ \E t \in Tasks, query \in Queries : AudioQueryReturns(t, query)
    \/ \E t \in Tasks, wav \in WavBytes : SynthesisReturns(t, wav)
    \/ \E t \in Tasks : SynthesisFails(t)
    \/ toggle_mention
    \/ toggle_backup_audio
    \/ toggle_backup_text

SpecVoice == InitVoice /\ [][NextVoice]_vars

\* idle conversation pipeline, for the specifications of the store alone
ChatIdle ==
    /\ latest_n = MinHistoryLength
    /\ history = [g \in Scopes |-> <<>>]
    /\ system_prompt = <<>>
    /\ listen_all_messages = FALSE
    /\ tasks = [t \in Tasks |-> IdleTask]
    /\ appended = [g \in Scopes |-> <<>>]

\* VoiceVoxService.__init__ without a config: VoiceVoxConfig(); the file is as the
\* operator left it
InitStore ==
    /\ ChatIdle
    /\ DeliveryInit
    /\ defaults = DEFAULTS
    /\ voicevox_config = VoiceVoxConfig(EmptyDict)
    /\ persisted \in Files
    /\ outcome = NoOutcome

\* the operations of VoiceVoxConfig
NextStore ==
    \/ \E config \in Overrides : new_config(config)
    \/ \E key \in KeyInputs, value \in ValueInputs : set(key, value)
    \/ reset
    \/ as_dict
    \/ \E query_data \in Queries : apply_to_query(query_data)
    \/ save
    \/ load

SpecStore == InitStore /\ [][NextStore]_vars

\* texts of at most MaxTextLen characters or tokens of the alphabet
TextsOver(alphabet) == UNION { [1..n -> alphabet] : n \in 0..MaxTextLen }

\* "(", ")", "a", " "
ParenChars == { Parens.open, Parens.close, \H61, \H20 }

\* hiragana KO, the ideograph U+4E2D, the ideographic full stop, " "
SentenceChars == { \H3053, \H4E2D, \H3002, \H20 }

\* the first input of test_remove_chinese_sentences: a sentence in kana and
\* ideographs, a sentence in ideographs alone, a sentence in kana and ideographs
ExampleText ==
    << \H3053, \H308C, \H306F, \H65E5, \H672C, \H8A9E, \H3002,
       \H9019, \H662F, \H4E2D, \H6587, \H53E5, \H5B50, \H3002,
       \H6B21, \H306E, \H65E5, \H672C, \H8A9E, \HFF01 >>

\* twenty, and nineteen, ideographs and one kana: the ratios next to the threshold
ThresholdTexts ==
    { [i \in 1..20 |-> \H4E2D] \o << \H3053, \H3002 >>,
      [i \in 1..19 |-> \H4E2D] \o << \H3053, \H3002 >> }

SentenceTexts == TextsOver(SentenceChars) \cup {ExampleText} \cup ThresholdTexts

\* message.mentions as the dict replace_mentions makes of it
MentionMaps == { NoMentions, "7" :> "Ann" }

MentionTexts == TextsOver({ "<@7>", "<@&7>", "<@!7>", "<@&5>", "hi" })

\* messages with and without a resolved reference
Messages ==
    [content : { <<"hi">>, <<"<@7>", " ">> },
     reference : { <<>>,
                   <<[author |-> "Bob", content |-> <<"yo">>,
                      attachments |-> <<"image/png", "text/plain", "image/jpeg">>]>>,
                   <<[author |-> "Bob", content |-> <<>>, attachments |-> <<>>]>> },
     mentions : MentionMaps]

\* the calls of the text functions: each function with each of its inputs
Calls ==
    { Pending("replace_mentions", arg) :
          arg \in [mentions : MentionMaps, content : MentionTexts] }
    \cup { Pending("normalize", message) : message \in Messages }
    \cup { Pending("remove_parentheses", text) : text \in TextsOver(ParenChars) }
    \cup { Pending("remove_chinese_sentences", text) : text \in SentenceTexts }

\* one call of a text function is about to be made
InitText ==
    /\ ChatIdle
    /\ DeliveryInit
    /\ defaults = DEFAULTS
    /\ voicevox_config = DEFAULTS
    /\ persisted = Saved(DEFAULTS)
    /\ outcome \in Calls

NextText ==
    \/ CallReplaceMentions
    \/ CallNormalize
    \/ CallRemoveParentheses
    \/ CallRemoveChineseSentences

SpecText == InitText /\ [][NextText]_vars

\* the tokens of the time tag
TagTokens == { "[", "time: ", "]" }

\* response.text of the model: every text of at most MaxRawLen of the tokens
TaggedResponses == UNION { [1..n -> TagTokens] : n \in 1..MaxRawLen }

\* one get_answer of a command, for every response of the model
NextAnswer ==
    \/ \E c \in CommandTexts :
            /\ Started = 0
            /\ ask(1, Alice.name, c)
    \/ \E t \in Tasks :
            /\ tasks[t].pc = "ask"
            /\ \E raw \in TaggedResponses : ModelReturns(t, raw)

SpecAnswer == InitVoice /\ [][NextAnswer]_vars

\* messages from every kind of author while the listening mode is toggled
NextListen ==
    \/ /\ Received < MaxMessages
       /\ \E a \in Authors, c \in Contents :
              /\ Replies(a, c) => Started < MaxCalls
              /\ on_message(1, a, c, <<>>)
    \/ toggle_listen
    \/ \E t \in Tasks, raw \in SpokenResponses : ModelReturns(t, raw)
    \/ \E t \in Tasks : ModelFails(t)

SpecListen == Init /\ [][NextListen]_vars

\* reset_all among the commands that change what it resets, with one message
\* and one invocation to fill the logs of the scopes
NextReset ==
    \/ /\ Received = 0
       /\ \E g \in Scopes, c \in Contents :
              /\ Replies(Alice, c) => Started = 0
              /\ on_message(g, Alice, c, <<>>)
    \/ /\ Started = 0
       /\ \E g \in Scopes, c \in CommandTexts : ask(g, Alice.name, c)
    \/ \E t \in Tasks, raw \in SpokenResponses : ModelReturns(t, raw)
    \/ toggle_mention
    \/ toggle_listen
    \/ \E prompt \in Prompts : change_system_prompt(prompt)
    \/ \E speaker_id \in Speakers : change_speaker(speaker_id)
    \/ set(EnumKey("SPEED_SCALE"), PyFloat("1", "2"))
    \/ \E g \in Scopes : reset_all(g)

SpecReset == Init /\ [][NextReset]_vars

\* latest_n_history = int(os.getenv("LATEST_N_HISTORY", "10")): the non-negative
\* integers the operator can configure, which setup hands to ChatHistoryManager
\* unchecked
StartLengths == 0..MaxN

\* setup with an unchecked LATEST_N_HISTORY
InitStartup ==
    /\ latest_n \in StartLengths
    /\ history = [g \in Scopes |-> <<>>]
    /\ system_prompt = <<"SYS">>
    /\ listen_all_messages = FALSE
    /\ tasks = [t \in Tasks |-> IdleTask]
    /\ appended = [g \in Scopes |-> <<>>]
    /\ defaults = DEFAULTS
    /\ voicevox_config = DEFAULTS
    /\ persisted = Saved(DEFAULTS)
    /\ outcome = NoOutcome
    /\ DeliveryInit

\* the text flow of one guild from every configured history length
SpecStartup == InitStartup /\ [][NextConcurrent]_vars


\* the delivery of the answer of a command while the speaker is changed or reset
NextSpeaker ==
    \/ /\ Started = 0
       /\ \E c \in CommandTexts : ask(1, Alice.name, c)
    \/ \E t \in Tasks, raw \in SpokenResponses : ModelReturns(t, raw)
    \/ \E t \in Tasks : send_tts_response(t)
    \/ \E t \in Tasks, query \in Queries : AudioQueryReturns(t, query)
    \/ \E t \in Tasks, wav \in WavBytes : SynthesisReturns(t, wav)
    \/ reset_speaker
    \/ \E speaker_id \in Speakers : change_speaker(speaker_id)
    \/ \E g \in Scopes : reset_all(g)

SpecSpeaker == InitVoice /\ [][NextSpeaker]_vars


\* a second user, and the users who each talk to the bot in direct messages
Bob == [name |-> "Bob", bot |-> FALSE, self |-> FALSE]
DirectUsers == {Alice, Bob}

\* guild_id of a source whose guild is None
DirectScope == 0

\* direct-message conversations of two users: messages, commands, clear_history
NextDirect ==
    \/ /\ Received < MaxMessages
       /\ \E a \in DirectUsers, c \in Contents :
              /\ Replies(a, c) => Started < MaxTasks
              /\ on_message(DirectScope, a, c, <<>>)
    \/ /\ Started < MaxTasks
       /\ \E a \in DirectUsers, c \in CommandTexts : ask(DirectScope, a.name, c)
    \/ \E t \in Tasks, raw \in SpokenResponses : ModelReturns(t, raw)
    \/ clear_history(DirectScope)

SpecDirect == Init /\ [][NextDirect]_vars


\* the keys the change_* commands set and the values they are given
CommandKeys ==
    { EnumKey(m) : m \in {"SPEED_SCALE", "PITCH_SCALE", "INTONATION_SCALE",
                          "VOLUME_SCALE", "PAUSE_LENGTH_SCALE"} }
CommandValues == { PyFloat("1", "7") }

\* the start of main: voicevox_config.json as the operator left it, in a state
\* that lets get_settings return
InitCommands ==
    /\ InitStore
    /\ ~SettingsRaise(persisted)

\* the store of the running bot: main loads it and hands it to the service,
\* the change_* commands set one key, reset_config and reset_all reset it
NextCommands ==
    \/ load
    \/ /\ outcome.op # "none"
       /\ \E key \in CommandKeys, value \in CommandValues : set(key, value)
    \/ /\ outcome.op # "none"
       /\ reset
    \/ /\ outcome.op # "none"
       /\ \E g \in Scopes : reset_all(g)

SpecCommands == InitCommands /\ [][NextCommands]_vars


---------------------------------------------------------------------------
(* Claims *)

\* the turns ever appended to scope g, oldest first
AllTurns(g) == [i \in 1..Len(appended[g]) |-> appended[g][i].turn]

\* the last k elements of s (all of s when it is shorter)
LastK(s, k) == SubSeq(s, Len(s) - Min(Len(s), k) + 1, Len(s))

\* C1: every step that appends a turn to a scope (add_user_message or
\* add_assistant_message) leaves that scope's stored log with at most
\* 2 * latest_n turns, latest_n being the value in force at that append.
C1_BoundedAfterAppend ==
    [][\A g \in Scopes :
          Len(appended'[g]) > Len(appended[g]) => Len(history'[g]) <= 2 * latest_n']_vars

\* C1 witness: a scope that received more than 2 * latest_n turns and whose
\* stored log is exactly the newest 2 * latest_n of them.
C1_Witness ==
    \E g \in Scopes :
        /\ Len(appended[g]) > 2 * latest_n
        /\ history[g] = LastK(AllTurns(g), 2 * latest_n)

\* C2: under appends alone with latest_n fixed at k, get_latest_history returns
\* at most 2k turns, and they are the min(N, 2k) most recently appended turns
\* of the scope, oldest first.
C2_LatestAreMostRecent ==
    \A g \in Scopes :
        LET r == get_latest_history(history[g], latest_n)
        IN /\ Len(r) <= 2 * latest_n
           /\ r = LastK(AllTurns(g), 2 * latest_n)

\* C2 witness: more than 2k turns were appended and exactly 2k are returned.
C2_Witness ==
    \E g \in Scopes :
        /\ Len(appended[g]) > 2 * latest_n
        /\ Len(get_latest_history(history[g], latest_n)) = 2 * latest_n

\* the step in which get_answer invocation t returns its answer
Returns(t) ==
    /\ tasks[t].pc \in {"describe", "ask"}
    /\ tasks'[t].pc = "answered"

\* the scope of invocation t was empty when on_message received the message that
\* started t, and nothing but that message has reached the scope since
OnlyItsMessage(t) ==
    LET g == tasks[t].scope
    IN /\ tasks[t].origin = "message"
       /\ Len(appended[g]) = 1
       /\ appended[g][1].by = t
       /\ history[g] = <<appended[g][1].turn>>

\* turn is a user turn of user_name with the given text
IsUserTurn(turn, user_name, text) ==
    /\ turn.role = "user"
    /\ \E ts \in Timestamps :
           turn.content = <<"[", "time: ", ts, "]", " ", user_name, ": ">> \o text

\* turn is an assistant turn with the given text
IsAssistantTurn(turn, text) ==
    /\ turn.role = "assistant"
    /\ \E ts \in Timestamps : turn.content = <<"[", "time: ", ts, "]", " ">> \o text

\* what get_answer stores as the question of invocation t
StoredQuestion(t) ==
    IF tasks[t].image # 0 THEN <<"[sent image] ">> \o tasks[t].question
    ELSE tasks[t].question

\* C3 as claimed: when a reply-triggering message is handled end to end in a
\* scope whose history was empty, the log then holds exactly one user turn
\* followed by one assistant turn carrying the answer.
C3_AsClaimed ==
    [][\A t \in Tasks :
          Returns(t) /\ OnlyItsMessage(t) =>
              LET h == history'[tasks[t].scope]
              IN /\ Len(h) = 2
                 /\ h[1].role = "user"
                 /\ IsAssistantTurn(h[2], tasks'[t].answer)]_vars

\* C3 amended: on_message has already stored the received message as a user
\* turn, so the log then holds the last 2 * latest_n of three turns: the user
\* turn of the message as received, the user turn of the question get_answer
\* was given, and the assistant turn carrying the time-tag-stripped answer.
C3_MessageQuestionAnswer ==
    [][\A t \in Tasks :
          Returns(t) /\ OnlyItsMessage(t) =>
              LET g == tasks[t].scope
                  h == history'[g]
                  k == Min(3, 2 * latest_n)
                  three == <<history[g][1], h[Len(h) - 1], h[Len(h)]>>
              IN /\ Len(h) = k
                 /\ h = LastK(three, k)
                 /\ IsUserTurn(three[2], tasks[t].user, StoredQuestion(t))
                 /\ IsAssistantTurn(three[3], tasks'[t].answer)
                 /\ tasks'[t].answer = remove_time_tag(tasks'[t].answer)]_vars

\* C3 witness: a message-started invocation has returned and the scope's log
\* holds the message's turn, the question's turn and the answer's turn.
C3_Witness ==
    \E t \in Tasks :
        LET g == tasks[t].scope
        IN /\ tasks[t].pc = "answered"
           /\ tasks[t].origin = "message"
           /\ Len(appended[g]) = 3
           /\ \A i \in 1..3 : appended[g][i].by = t
           /\ history[g] = AllTurns(g)
           /\ history[g][1].role = "user"
           /\ IsUserTurn(history[g][2], tasks[t].user, StoredQuestion(t))
           /\ IsAssistantTurn(history[g][3], tasks[t].answer)

\* invocation t took the text flow (no image attachment) and has made its call
TextFlow(t) ==
    /\ tasks[t].pc \in {"ask", "answered", "failed"}
    /\ tasks[t].image = 0

\* '<speakerName>: <question>' of invocation t
UserMessage(t) == <<tasks[t].user, ": ">> \o tasks[t].question

\* C4: in the text flow get_answer makes exactly one chat-with-history call,
\* and the message list of that call ends with a user-role entry whose content
\* contains '<speakerName>: <question>'.
C4_OneCallEndingWithQuestion ==
    \A t \in Tasks :
        TextFlow(t) =>
            /\ Len(tasks[t].calls) = 1
            /\ tasks[t].calls[1].kind = "ask"
            /\ LET m == tasks[t].calls[1].messages
               IN /\ m # <<>>
                  /\ m[Len(m)].role = "user"
                  /\ Contains(m[Len(m)].text, UserMessage(t))

\* C4 witness: a text-flow invocation with a system prompt set and a non-empty
\* history has returned; the last entry of its call is the question itself.
C4_Witness ==
    \E t \in Tasks :
        /\ TextFlow(t)
        /\ tasks[t].pc = "answered"
        /\ tasks[t].hist # <<>>
        /\ Truthy(system_prompt)
        /\ LET m == tasks[t].calls[1].messages
           IN m[Len(m)] = [role |-> "user", text |-> UserMessage(t)]

\* C5: the message list sent to the model holds every turn of the fetched
\* history, in stored order and with its role mapped, ahead of the new
\* '<speakerName>: <question>' entry, whatever the role of the first turn and
\* whether or not a system prompt is set.
C5_HistoryForwarded ==
    \A t \in Tasks :
        TextFlow(t) =>
            LET m == tasks[t].calls[1].messages
                h == tasks[t].hist
            IN /\ Len(m) = Len(h) + 1
               /\ \A i \in 1..Len(h) :
                      /\ m[i].role = GeminiRole(h[i].role)
                      /\ Contains(m[i].text, h[i].content)
               /\ Contains(m[Len(m)].text, UserMessage(t))

\* turns of invocation t in the full log of its scope: their positions
TurnsOf(t) ==
    { i \in 1..Len(appended[tasks[t].scope]) :
        /\ appended[tasks[t].scope][i].by = t
        /\ appended[tasks[t].scope][i].part \in {"user", "assistant"} }

\* C6: get_answer stores nothing while its model call is in flight and stores
\* its user turn and its assistant turn together when the call returns, so the
\* turns of concurrent invocations lie in the log in the order their calls
\* complete, not in the order the requests arrived.
C6_StoredAtCompletion ==
    \A t \in Tasks :
        /\ tasks[t].pc \in {"idle", "read", "describe", "ask", "failed"} => TurnsOf(t) = {}
        /\ tasks[t].pc = "answered" /\ tasks[t].add_to_history =>
               \E i \in TurnsOf(t) : TurnsOf(t) = {i, i + 1}

\* owner of the i-th turn of the stored log of scope g (the stored log is a
\* suffix of the full log while no clear_history runs)
OwnerAt(g, i) == appended[g][Len(appended[g]) - Len(history[g]) + i].by

\* C6 witness: two invocations in one scope, both returned, and in the stored
\* log the turns of the later-arrived one precede those of the earlier one.
C6_Witness ==
    \E t1, t2 \in Tasks :
        LET g == tasks[t1].scope
        IN /\ t1 < t2
           /\ tasks[t2].scope = g
           /\ tasks[t1].pc = "answered"
           /\ tasks[t2].pc = "answered"
           /\ history[g] = LastK(AllTurns(g), Len(history[g]))
           /\ \E i, j \in 1..Len(history[g]) :
                  /\ i < j
                  /\ OwnerAt(g, i) = t2
                  /\ OwnerAt(g, j) = t1

\* invocation t took the image flow and has returned
ImageTurnDone(t) ==
    /\ tasks[t].pc = "answered"
    /\ tasks[t].image # 0

\* the calls of kind `kind` that invocation t has made, in order
CallsOfKind(t, kind) == SelectSeq(tasks[t].calls, LAMBDA c : c.kind = kind)

\* the positions of the image attachments of invocation t, in attachment order
RECURSIVE ImagePositions(_, _)
ImagePositions(attachments, i) ==
    IF i > Len(attachments) THEN <<>>
    ELSE (IF IsImage(attachments[i]) THEN <<i>> ELSE <<>>)
         \o ImagePositions(attachments, i + 1)

\* C7: for a turn with image attachments get_answer requests one image
\* description per image, in attachment order.
C7_OneDescriptionPerImage ==
    \A t \in Tasks :
        ImageTurnDone(t) =>
            LET d == CallsOfKind(t, "describe")
                imgs == ImagePositions(tasks[t].attachments, 1)
            IN /\ Len(d) = Len(imgs)
               /\ \A i \in 1..Len(d) :
                      /\ d[i].image = imgs[i]
                      /\ d[i].mime_type = tasks[t].attachments[imgs[i]]

\* C8: in an image turn the returned answer comes from a single
\* chat-with-history call made after the image descriptions, whose message
\* list ends with the combined prompt holding '<speakerName>: <question>'.
C8_AnswerFromChatCall ==
    \A t \in Tasks :
        ImageTurnDone(t) =>
            LET c == tasks[t].calls
            IN /\ Len(CallsOfKind(t, "ask")) = 1
               /\ c[Len(c)].kind = "ask"
               /\ Contains(c[Len(c)].messages[Len(c[Len(c)].messages)].text,
                           UserMessage(t))

\* C9: when an image turn with add_to_history enabled returns, the stored log
\* ends with the user turn carrying '[sent image] ' before the question text,
\* followed by the assistant turn holding the answer.
C9_ImageTurnStored ==
    [][\A t \in Tasks :
          Returns(t) /\ tasks[t].image # 0 /\ tasks[t].add_to_history =>
              LET h == history'[tasks[t].scope]
              IN /\ Len(h) >= 2
                 /\ IsUserTurn(h[Len(h) - 1], tasks[t].user,
                               <<"[sent image] ">> \o tasks[t].question)
                 /\ IsAssistantTurn(h[Len(h)], tasks'[t].answer)]_vars

\* C9 witness: an image turn with add_to_history enabled has returned and the
\* stored log ends with its marked user turn and its assistant turn.
C9_Witness ==
    \E t \in Tasks :
        LET h == history[tasks[t].scope]
        IN /\ ImageTurnDone(t)
           /\ tasks[t].add_to_history
           /\ Len(h) >= 2
           /\ IsUserTurn(h[Len(h) - 1], tasks[t].user,
                         <<"[sent image] ">> \o tasks[t].question)
           /\ IsAssistantTurn(h[Len(h)], tasks[t].answer)

\* C10: no turn is ever stored, in any scope, by a get_answer invocation that
\* was called with add_to_history = false.
C10_SuppressedStoresNothing ==
    \A t \in Tasks :
        ~tasks[t].add_to_history =>
            \A g \in Scopes : \A i \in 1..Len(appended[g]) : appended[g][i].by # t

\* the model call of invocation t is in flight
InFlight(t) == tasks[t].pc \in {"describe", "ask"}

\* C11: the model call of a get_answer invocation ends either by returning or
\* by get_answer raising; when it raises, get_answer has made no further model
\* call and holds no answer, and a get_answer that has raised does nothing more.
C11_FailurePropagates ==
    [][\A t \in Tasks :
          /\ InFlight(t) /\ tasks'[t] # tasks[t] =>
                \/ tasks'[t].pc = "answered"
                \/ /\ tasks'[t].pc = "failed"
                   /\ tasks'[t].calls = tasks[t].calls
                   /\ tasks'[t].answer = <<>>
          /\ tasks[t].pc = "failed" => tasks'[t] = tasks[t]]_vars

\* C11 witness: an invocation whose single model call raised: it is in its
\* failed position with that one call and no answer.
C11_Witness ==
    \E t \in Tasks :
        /\ tasks[t].pc = "failed"
        /\ Len(tasks[t].calls) = 1
        /\ tasks[t].answer = <<>>

\* invocation t ended because its model call or its synthesis call raised
CallFailed(t) == tasks[t].pc \in {"failed", "undelivered"}

\* C12: every reply-triggering message and every command whose model call or
\* synthesis call fails is eventually followed by a failure message sent to
\* the user.
C12_FailureSurfaced ==
    \A t \in Tasks :
        CallFailed(t) ~> (\E i \in 1..Len(tasks[t].sent) : tasks[t].sent[i].kind = "failure")

\* the lengths set_history_length accepts
AcceptedLength(n) == n >= MinHistoryLength /\ n <= MaxHistoryLength

\* C13: in every state, set_history_length with a value below 1 or above 50
\* cannot change latest_n, and with a value in 1..50 it runs and can only end
\* with latest_n equal to that value.
C13_LengthChecked ==
    \A n \in LengthInputs :
        IF AcceptedLength(n)
        THEN /\ ENABLED set_history_length(n)
             /\ ~ENABLED (set_history_length(n) /\ latest_n' # n)
        ELSE /\ ENABLED set_history_length(n)
             /\ ~ENABLED (set_history_length(n) /\ latest_n' # latest_n)

\* C13 witness: latest_n has been set to the smallest accepted value after a
\* scope had stored three turns under a larger one.
C13_Witness ==
    /\ latest_n = MinHistoryLength
    /\ \E g \in Scopes : Len(history[g]) = 3

\* the turns appended to scope g by the step
NewTurns(g) ==
    [i \in 1..(Len(appended'[g]) - Len(appended[g])) |->
        appended'[g][Len(appended[g]) + i].turn]

\* C14: a step that changes latest_n changes no scope's stored log, and after
\* every step a scope's stored log is a suffix of its old stored log followed
\* by the turns the step appended, so a turn that was evicted never comes back.
C14_ChangeLeavesLogs ==
    [][/\ latest_n' # latest_n => history' = history
       /\ \A g \in Scopes :
              history'[g] = LastK(history[g] \o NewTurns(g), Len(history'[g]))]_vars

\* C14 witness: latest_n was lowered below what a scope's log needs and the log
\* still holds every turn the scope ever received.
C14_Witness ==
    \E g \in Scopes :
        /\ Len(history[g]) > 2 * latest_n
        /\ history[g] = AllTurns(g)

\* C15: in every state, clear_history on a scope runs and can only end with
\* that scope's log empty and with every other scope's log and latest_n as
\* they were.
C15_ClearOneScope ==
    \A g \in Scopes :
        /\ ENABLED clear_history(g)
        /\ ~ENABLED (/\ clear_history(g)
                     /\ ~(/\ history'[g] = <<>>
                          /\ \A h \in Scopes \ {g} : history'[h] = history[h]
                          /\ latest_n' = latest_n))

\* C15 witness: a scope that received turns has been cleared while another
\* scope still holds its turns.
C15_Witness ==
    \E g, h \in Scopes :
        /\ g # h
        /\ appended[g] # <<>>
        /\ history[g] = <<>>
        /\ history[h] # <<>>

\* the ten recognized keys
RecognizedKeys == { VoiceVoxConfigKey[m] : m \in DOMAIN VoiceVoxConfigKey }

\* C16: in every reachable state of a VoiceVoxConfig every key of its mapping
\* is one of the ten recognized keys.
C16_OnlyRecognizedKeys == DOMAIN voicevox_config \subseteq RecognizedKeys

\* C17: a set with a key outside the recognized set raises KeyError and leaves
\* the mapping as it was; a set with a recognized key returns, and afterwards
\* the mapping holds the given value at that key and is unchanged elsewhere.
C17_SetChecksKey ==
    [][outcome'.op = "set" =>
          IF outcome'.key \in RecognizedKeys
          THEN /\ outcome'.raised = ""
               /\ DOMAIN voicevox_config' = DOMAIN voicevox_config \cup {outcome'.key}
               /\ voicevox_config'[outcome'.key] = outcome'.arg
               /\ \A k \in DOMAIN voicevox_config \ {outcome'.key} :
                      voicevox_config'[k] = voicevox_config[k]
          ELSE /\ outcome'.raised = "KeyError"
               /\ voicevox_config' = voicevox_config]_vars

\* C17 witness: a set with an unrecognized key has just been refused while the
\* mapping still carries the value an earlier set gave to a recognized key.
C17_Witness ==
    /\ outcome.op = "set"
    /\ outcome.raised = "KeyError"
    /\ outcome.key \notin RecognizedKeys
    /\ voicevox_config["speedScale"] = PyFloat("1", "2")

\* C18: apply_to_query returns a dict with exactly the keys of the query, in
\* which a key the config holds with a non-null value has the config's value
\* and every other key has the query's value; the query passed in and the
\* store are as they were.
C18_ApplyToQuery ==
    [][outcome'.op = "apply_to_query" =>
          LET q == outcome'.arg
              r == outcome'.value
              c == voicevox_config
          IN /\ outcome'.raised = ""
             /\ DOMAIN r = DOMAIN q
             /\ \A k \in DOMAIN q :
                    r[k] = IF k \in DOMAIN c /\ c[k] # PyNone THEN c[k] ELSE q[k]
             /\ outcome'.object = q
             /\ voicevox_config' = c
             /\ persisted' = persisted]_vars

\* C18 witness: a query was merged whose pauseLength the config holds as None
\* and whose speedScale the config holds with another value than the query:
\* the first kept the query's value, the second took the config's.
C18_Witness ==
    /\ outcome.op = "apply_to_query"
    /\ "pauseLength" \in DOMAIN outcome.arg
    /\ voicevox_config["pauseLength"] = PyNone
    /\ outcome.value["pauseLength"] = outcome.arg["pauseLength"]
    /\ voicevox_config["speedScale"] # outcome.arg["speedScale"]
    /\ outcome.value["speedScale"] = voicevox_config["speedScale"]
    /\ outcome.value["kana"] = outcome.arg["kana"]

\* C19: a load that cannot read the persisted mapping, whether the file is
\* missing or the read fails otherwise, returns a store equal to the default
\* table and leaves the default table persisted.
C19_UnreadableGivesDefaults ==
    [][outcome'.op = "load" /\ persisted.kind # "object" =>
          /\ outcome'.raised = ""
          /\ outcome'.value = DEFAULTS
          /\ persisted' = Saved(DEFAULTS)]_vars

\* C20: a load that directly follows a save returns a store whose mapping
\* equals the mapping that was saved.
C20_SaveLoadRoundTrip ==
    [][outcome.op = "save" /\ outcome'.op = "load" =>
          /\ outcome'.raised = ""
          /\ outcome'.value = voicevox_config
          /\ voicevox_config' = voicevox_config]_vars

\* C20 witness: a mapping changed by set, holding a None, a boolean, an int
\* and floats, was saved and then loaded, and the loaded mapping equals it.
C20_Witness ==
    /\ outcome.op = "load"
    /\ outcome.raised = ""
    /\ persisted = Saved(voicevox_config)
    /\ DOMAIN voicevox_config = RecognizedKeys
    /\ voicevox_config["speedScale"] = PyNone
    /\ voicevox_config["pauseLength"] = PyFloat("1", "2")

\* C21: an as_dict that directly follows a reset returns the default table
\* exactly, whatever construction, load and set operations came before, and
\* no operation ever alters the default table of the class.
C21_ResetRestoresDefaults ==
    [][/\ defaults' = DEFAULTS
       /\ outcome.op = "reset" /\ outcome'.op = "as_dict" => outcome'.value = DEFAULTS]_vars

\* C21 witness: the mapping had been given an unrecognized key (by construction
\* or load) and a changed speedScale; after reset, as_dict returned the
\* default table.
C21_Witness ==
    /\ outcome.op = "as_dict"
    /\ outcome.value = DEFAULTS
    /\ voicevox_config = DEFAULTS
    /\ persisted.kind = "object"
    /\ DOMAIN persisted.doc = RecognizedKeys \cup {"foo"}
    /\ persisted.doc["speedScale"] = <<"null">>

\* the step of invocation t from one position of the delivery to another
DeliveryStep(t, from, to) == tasks[t].pc = from /\ tasks'[t].pc = to

\* the mention send_tts_response prepends for the user of invocation k
MentionOf(k) == <<"<@", k.user, "> ">>

\* C22: when a delivery that was started with mention enabled ends, the sent
\* text and the text written to the backup are the mention of the requesting
\* user followed by the answer, while the text posted to the engine is the
\* answer without it.
C22_MentionOnlyDisplayed ==
    [][\A t \in Tasks :
          DeliveryStep(t, "synthesis", "sent") /\ tasks[t].delivery.mention =>
              LET k == tasks'[t]
                  d == k.delivery
              IN /\ k.sent[Len(k.sent)].content = MentionOf(k) \o k.answer
                 /\ \A i \in DOMAIN d.backups :
                        d.backups[i].kind = "text" =>
                            d.backups[i].content = MentionOf(k) \o k.answer
                 /\ d.requests[1].text = k.answer
                 /\ \A i \in DOMAIN d.requests :
                        d.requests[i].text # MentionOf(k) \o k.answer]_vars

\* C22 witness: a delivery has ended whose sent and backed-up text start with
\* the mention while the engine was asked for the non-empty answer alone.
C22_Witness ==
    \E t \in Tasks :
        LET k == tasks[t]
            d == k.delivery
        IN /\ k.pc = "sent"
           /\ d.mention
           /\ k.answer # <<>>
           /\ k.sent[Len(k.sent)].content = MentionOf(k) \o k.answer
           /\ \E i \in DOMAIN d.backups :
                  /\ d.backups[i].kind = "text"
                  /\ d.backups[i].content = MentionOf(k) \o k.answer
           /\ d.requests[1].text = k.answer

\* C23: when a delivery has written both an audio file and a text file, the
\* two carry the same timestamp, the same speaker id and the same scope id.
C23_SharedTimestamp ==
    \A t \in Tasks :
        LET b == tasks[t].delivery.backups
        IN tasks[t].pc = "sent" /\ Len(b) = 2 =>
               /\ b[1].timestamp = b[2].timestamp
               /\ b[1].speaker_id = b[2].speaker_id
               /\ b[1].guild_id = b[2].guild_id

\* C24: synthesize first posts the fetch of the template with the text and the
\* speaker id and no configuration in it, then posts to the synthesis endpoint
\* the template it got with the store merged into it, and returns exactly the
\* bytes of the response to that second request, making no other request.
C24_FetchMergeSynthesize ==
    [][\A t \in Tasks :
          LET k == tasks[t]
              d == tasks[t].delivery
              e == tasks'[t].delivery
          IN /\ DeliveryStep(t, "answered", "audio_query") =>
                    e.requests = <<Request("audio_query", default_speaker, k.answer, EmptyDict)>>
             /\ DeliveryStep(t, "audio_query", "synthesis") =>
                    /\ Len(e.responses) = 1
                    /\ e.requests =
                           Append(d.requests,
                                  Request("synthesis", d.requests[1].speaker, <<>>,
                                          Applied(voicevox_config, e.responses[1].body)))
             /\ DeliveryStep(t, "synthesis", "sent") =>
                    /\ e.requests = d.requests
                    /\ Len(e.requests) = 2
                    /\ Len(e.responses) = 2
                    /\ e.audio = e.responses[2].body]_vars

\* C24 witness: a synthesize has returned the bytes of the synthesis response
\* after posting a query that differs from the template it fetched by the
\* values of the store.
C24_Witness ==
    \E t \in Tasks :
        LET d == tasks[t].delivery
        IN /\ tasks[t].pc = "sent"
           /\ d.requests[2].json # d.responses[1].body
           /\ d.requests[2].json = Applied(voicevox_config, d.responses[1].body)
           /\ d.audio = d.responses[2].body
           /\ d.audio \in WavBytes

\* the message on_message received when it started invocation t, as the
\* preprocessor sees it: no reference, and the bot among its mentions when the
\* content mentions it
ReceivedMessage(t) ==
    LET log == appended[tasks[t].scope]
        i == CHOOSE j \in 1..Len(log) : log[j].by = t /\ log[j].part = "message"
        content == SubSeq(log[i].turn.content, 8, Len(log[i].turn.content))
    IN [content |-> content, reference |-> <<>>,
        mentions |-> IF MentionsBot(content) THEN "bot" :> BotName ELSE NoMentions]

\* C25: the question of an invocation started by on_message is the normalized
\* text the preprocessor makes of the message (reply context folded in,
\* mentions replaced by display names).
C25_QuestionIsNormalized ==
    \A t \in Tasks :
        tasks[t].origin = "message" => tasks[t].question = normalize(ReceivedMessage(t))

\* what the text of one token becomes when tokens that resolve are replaced and
\* all others are left as they are
ReplacedOrKept(mention_map, tok) ==
    IF tok \in DOMAIN MentionId /\ MentionId[tok] \in DOMAIN mention_map
    THEN <<"@", mention_map[MentionId[tok]]>>
    ELSE <<tok>>

\* C26: replace_mentions returns the text with every user or role mention whose
\* id is among the mentioned members replaced by "@" and the display name, and
\* with every other token, unresolved mentions included, exactly as it was.
C26_ReplaceMentions ==
    outcome.op = "replace_mentions" =>
        outcome.value =
            JoinAll([i \in 1..Len(outcome.arg.content) |->
                        ReplacedOrKept(outcome.arg.mentions, outcome.arg.content[i])])

\* a time tag starts somewhere in s
HasTimeTag(s) == \E i \in 1..Len(s) : TimeTagEnd(s, i) # 0

\* C27: the answer get_answer returns, which is also the content given to the
\* store for the assistant turn, holds no "[time: ...]" tag, whatever the model
\* returned.
C27_AnswerHasNoTimeTag ==
    \A t \in Tasks : tasks[t].pc = "answered" => ~HasTimeTag(tasks[t].answer)

\* a sentence closed by a terminal, free of whitespace, with a kana in it
IsJapaneseSentence(s) ==
    /\ s # <<>> /\ s[Len(s)] \in Terminals
    /\ \A i \in 1..Len(s) : s[i] \notin Spaces
    /\ \E i \in 1..Len(s) : IsLetter(s[i]) /\ ~IsChinese(s[i])

\* a sentence closed by a terminal whose other characters are all Chinese
IsChineseSentence(s) ==
    /\ Len(s) > 1 /\ s[Len(s)] \in Terminals
    /\ \A i \in 1..(Len(s) - 1) : IsChinese(s[i])

\* C28: of a text that is a Japanese sentence, a purely Chinese sentence and a
\* Japanese sentence, remove_chinese_sentences returns the first and the third
\* sentence with exactly one space between them.
C28_SpaceBetweenSentences ==
    outcome.op = "remove_chinese_sentences" =>
        LET S == Sentences(outcome.arg)
        IN /\ Len(S) = 4 /\ S[4] = <<>>
           /\ IsJapaneseSentence(S[1]) /\ IsChineseSentence(S[2])
           /\ IsJapaneseSentence(S[3])
           => outcome.value = S[1] \o << \H20 >> \o S[3]

\* the sentences of S with an index in K, trimmed and concatenated in order
RECURSIVE TrimmedFrom(_, _, _)
TrimmedFrom(S, K, i) ==
    IF i > Len(S) THEN <<>>
    ELSE (IF i \in K THEN StripChars(S[i]) ELSE <<>>) \o TrimmedFrom(S, K, i + 1)

\* the non-empty sentences of a text
NonEmptySentences(text) == SelectSeq(Sentences(text), LAMBDA s : s # <<>>)

\* a is b with some of its elements left out
IsSubsequence(a, b) ==
    \E K \in SUBSET (1..Len(b)) :
        /\ Cardinality(K) = Len(a)
        /\ \A i \in 1..Len(a) :
               a[i] = b[CHOOSE k \in K : Cardinality({ j \in K : j <= k }) = i]

InParens(s) ==
    { p \in 1..Len(s) :
        \E j \in 1..p, k \in p..Len(s) :
            /\ j < k
            /\ s[j] = Parens.open /\ s[k] = Parens.close
            /\ \A m \in j..(k - 1) : s[m] # Parens.close }

\* C30: remove_parentheses returns the text without every span from a "(" to
\* the first ")" after it, the other characters in their order, trimmed.
C30_RemoveParentheses ==
    outcome.op = "remove_parentheses" =>
        LET s == outcome.arg
            kept == SelectSeq([i \in 1..Len(s) |-> i], LAMBDA i : i \notin InParens(s))
        IN outcome.value = StripChars([i \in 1..Len(kept) |-> s[kept[i]]])

\* C30 witness: of a text with a "(" inside a "(", the span to the first ")"
\* was removed and the second ")" stayed.
C30_Witness ==
    /\ outcome.op = "remove_parentheses"
    /\ outcome.arg = << Parens.open, Parens.open, Parens.close, Parens.close >>
    /\ outcome.value = << Parens.close >>

\* the author with the given display name
AuthorNamed(user_name) == CHOOSE a \in Authors : a.name = user_name

\* the entry the step appends to scope g when it appends exactly one, a received
\* message
ReceivedBy(g) == appended'[g][Len(appended'[g])]
Receives(g) ==
    /\ Len(appended'[g]) = Len(appended[g]) + 1
    /\ ReceivedBy(g).part = "message"

\* C31: a step of on_message starts a get_answer invocation for the message if
\* and only if the author is not the bot itself and either listening to all
\* messages is on or the author is no bot and the bot is mentioned; in every
\* case, the bot's own messages included, the message is in the scope's log
\* before that, so that the invocation reads a history that holds it.
C31_ReplyDecision ==
    [][\A g \in Scopes :
          Receives(g) =>
              LET e == ReceivedBy(g)
                  a == AuthorNamed(e.turn.content[6])
                  c == SubSeq(e.turn.content, 8, Len(e.turn.content))
                  answered == /\ ~a.self
                              /\ listen_all_messages \/ (~a.bot /\ MentionsBot(c))
              IN /\ e.by # 0 <=> answered
                 /\ history'[g] = _trim_history(Append(history[g], e.turn), latest_n)
                 /\ e.by = 0 => tasks' = tasks
                 /\ e.by # 0 =>
                        /\ tasks[e.by].pc = "idle"
                        /\ tasks'[e.by].pc = "ask"
                        /\ tasks'[e.by].origin = "message"
                        /\ tasks'[e.by].hist = get_latest_history(history'[g], latest_n)
                        /\ \A u \in Tasks \ {e.by} : tasks'[u] = tasks[u]]_vars

\* C31 witness: while listening to all messages is on, a message of the bot
\* itself that mentions the bot was stored and started no invocation.
C31_Witness ==
    /\ listen_all_messages
    /\ \A t \in Tasks : tasks[t].pc = "idle"
    /\ \E i \in 1..Len(appended[1]) :
           /\ appended[1][i].part = "message"
           /\ appended[1][i].by = 0
           /\ appended[1][i].turn.content[6] = BotName
           /\ MentionsBot(SubSeq(appended[1][i].turn.content, 8,
                                 Len(appended[1][i].turn.content)))
           /\ history[1] = <<appended[1][i].turn>>

\* C32: in every state, reset_all in a scope runs and can only end with that
\* scope's log empty, the system prompt the one of the settings, the voice
\* parameter store equal to the default table, the speaker id the configured
\* one, mention_user true and listen_all_messages false, and with every other
\* scope's log as it was.
C32_ResetAll ==
    \A g \in Scopes :
        /\ ENABLED reset_all(g)
        /\ ~ENABLED (/\ reset_all(g)
                     /\ ~(/\ history'[g] = <<>>
                          /\ system_prompt' \in SettingsPrompts
                          /\ voicevox_config' = DEFAULTS
                          /\ default_speaker' = ConfiguredSpeaker
                          /\ mention_user'
                          /\ ~listen_all_messages'
                          /\ \A h \in Scopes \ {g} : history'[h] = history[h]))

\* C32 witness: after a change of the speed scale and turns in two scopes, one
\* scope is cleared, the other holds its turns, and every setting is at its
\* default.
C32_Witness ==
    /\ outcome.op = "set"
    /\ voicevox_config = DEFAULTS
    /\ system_prompt \in SettingsPrompts
    /\ default_speaker = ConfiguredSpeaker
    /\ mention_user
    /\ ~listen_all_messages
    /\ \E g, h \in Scopes :
           /\ appended[g] # <<>>
           /\ history[g] = <<>>
           /\ history[h] # <<>>


\* C33: under every interleaving of concurrent get_answer invocations and
\* on_message handlers in one scope, the user turn and the assistant turn that
\* one invocation appends are adjacent in the log, the user turn first: every
\* user turn of an invocation is directly followed by the assistant turn of the
\* same invocation, every assistant turn directly preceded by its user turn,
\* and the stored log is the tail of that sequence of appends.
C33_TurnsAdjacent ==
    \A g \in Scopes :
        /\ history[g] = LastK(AllTurns(g), Len(history[g]))
        /\ \A i \in 1..Len(appended[g]) :
               LET e == appended[g][i]
               IN /\ e.part = "user" =>
                         /\ i < Len(appended[g])
                         /\ appended[g][i + 1].part = "assistant"
                         /\ appended[g][i + 1].by = e.by
                  /\ e.part = "assistant" =>
                         /\ i > 1
                         /\ appended[g][i - 1].part = "user"
                         /\ appended[g][i - 1].by = e.by

\* C33 witness: two invocations of one scope have both stored their turns, and
\* each of them had read the log before either stored an assistant turn, so
\* their model calls were in flight together; a received message lies in the
\* same log.
C33_Witness ==
    \E t1, t2 \in Tasks :
        /\ t1 # t2
        /\ tasks[t1].scope = tasks[t2].scope
        /\ tasks[t1].pc = "answered"
        /\ tasks[t2].pc = "answered"
        /\ TurnsOf(t1) # {}
        /\ TurnsOf(t2) # {}
        /\ \A t \in {t1, t2} : \A i \in 1..Len(tasks[t].hist) :
               tasks[t].hist[i].role # "assistant"
        /\ \E i \in 1..Len(appended[tasks[t1].scope]) :
               appended[tasks[t1].scope][i].part = "message"


\* C34: for every latest_n the process can start with (setup hands the
\* LATEST_N_HISTORY setting to the store without a range check, 0 included),
\* each scope's stored log holds at most 2 * latest_n turns after every append
\* and get_latest_history returns at most 2 * latest_n turns.  Violated from
\* latest_n = 0: the slice history[-0:] is the whole list, so nothing is trimmed.
C34_BoundedForEveryStart ==
    /\ \A g \in Scopes : Len(history[g]) <= 2 * latest_n
    /\ \A t \in Tasks :
           tasks[t].pc # "idle" => Len(tasks[t].hist) <= 2 * latest_n


\* C35: once clear_history on a scope has completed, that scope's log never
\* later contains a turn belonging to a request whose get_answer had started
\* before the clear.  In particular: when an invocation that read a non-empty
\* log is still waiting for its model call and the log of its scope is empty
\* (appends never empty a log, so the scope was cleared after the invocation
\* read it), no step stores a turn of that invocation.  Violated: the
\* invocation appends its two turns to the cleared log when its call returns.
C35_NoTurnAfterClear ==
    [][\A t \in Tasks :
           LET g == tasks[t].scope
           IN (/\ tasks[t].pc \in {"describe", "ask"}
               /\ tasks[t].hist # <<>>
               /\ history[g] = <<>>)
              => \A i \in 1..Len(history'[g]) :
                     LET e == appended'[g][Len(appended'[g]) - Len(history'[g]) + i]
                     IN ~(e.by = t /\ e.part \in {"user", "assistant"})]_vars


\* C36: the speaker id under which a delivery's audio and text backups are
\* filed is the speaker id that was used to synthesize that delivery's audio,
\* also when change_speaker, reset_speaker or reset_all runs while the
\* synthesis call is in flight.  Violated: synthesize reads default_speaker
\* when it starts, send_tts_response reads it again after synthesize returns.
C36_FiledUnderSynthesisSpeaker ==
    \A t \in Tasks :
        tasks[t].pc = "sent" =>
            \A i \in 1..Len(tasks[t].delivery.backups) :
                /\ tasks[t].delivery.backups[i].speaker_id
                       = tasks[t].delivery.requests[1].speaker
                /\ tasks[t].delivery.backups[i].speaker_id
                       = tasks[t].delivery.requests[2].speaker


\* display names of the users whose turns are in a log
UsersIn(log) == { log[i].content[6] : i \in { j \in 1..Len(log) : log[j].role = "user" } }

\* C37: turns of one user's direct-message conversation never appear in the
\* history passed to the LLM for a different user's direct-message
\* conversation, and clear_history issued in one user's direct-message context
\* removes no other user's turns (whoever issues it, a clear that removes turns
\* of two users removes turns of another user).  Violated: every direct-message
\* conversation has the scope id 0, so all of them share one log.
C37_DirectMessagesApart ==
    [][/\ \A t \in Tasks :
              tasks'[t].pc # "idle" /\ tasks'[t].scope = DirectScope =>
                  UsersIn(tasks'[t].hist) \subseteq {tasks'[t].user}
       /\ history'[DirectScope] = <<>> /\ history[DirectScope] # <<>> =>
              Cardinality(UsersIn(history[DirectScope])) <= 1]_vars


\* C38: get_answer never returns an empty string: for every LLM result (a
\* non-empty text or the 'No response.' / 'No description.' sentinel), the
\* answer after time-tag stripping is non-empty, so the reply sent by the
\* delivery step always has content.  Violated by a response that is nothing but
\* a time tag: the sentinel is chosen before the tag is removed.
C38_AnswerNonEmpty ==
    \A t \in Tasks : tasks[t].pc = "answered" => tasks[t].answer # <<>>


\* the mapping the next load would return
NextLoaded ==
    IF ReadError(persisted) = "" THEN VoiceVoxConfig(Parsed(persisted)) ELSE defaults

\* C39: set and reset on the store, as issued by the change_* / reset_config /
\* reset_all commands, leave the persisted representation unchanged: it is
\* written only by save, which runs only when load finds no persisted file, so
\* the mapping a later load returns does not include parameters changed by
\* command.  A step changes the file only when the file is missing, and then to
\* the defaults; a step of set or reset leaves it; no load returns a value that
\* a command has set.
C39_CommandsDoNotPersist ==
    [][/\ persisted' # persisted =>
              /\ ReadError(persisted) = "FileNotFoundError"
              /\ persisted' = Saved(defaults)
       /\ outcome' # outcome /\ outcome'.op \in {"set", "reset"} => persisted' = persisted
       /\ outcome'.op = "load" /\ outcome'.raised = "" =>
              \A k \in DOMAIN outcome'.value : outcome'.value[k] \notin CommandValues]_vars

\* C39 witness: a change_* command has just set a key of the store, the file
\* holds no such value, and the load that follows returns the mapping without it.
C39_Witness ==
    /\ outcome.op = "set"
    /\ outcome.raised = ""
    /\ outcome.arg \in CommandValues
    /\ voicevox_config[outcome.key] = outcome.arg
    /\ persisted.kind = "object"
    /\ NextLoaded[outcome.key] # outcome.arg
    /\ ENABLED (load /\ outcome'.value = NextLoaded)

====
